---- MODULE Spec2Model ----
(***************************************************************************)
(* Simple-ECS: the World's entity lifecycle (World.hpp), the Entity        *)
(* (Entity.hpp) and the per-system component table (System.hpp).           *)
(*                                                                         *)
(* One update thread walks through postUpdate in the steps given by pc;    *)
(* createEntity and destroyEntityLater are calls of any thread (or of a    *)
(* user hook) and interleave with those steps at the points yieldPoint     *)
(* names.                                                                  *)
(*                                                                         *)
(* Further specifications of the same World: SpecCycle drives the test     *)
(* systems cycle by cycle, SpecThreads splits createEntity of another      *)
(* thread to show what the locks cover, SpecTable calls one component      *)
(* table directly.                                                         *)
(***************************************************************************)
EXTENDS Integers, Sequences, FiniteSets, TLC

\* -------------------------------------------------------------------------
\* Bounds of the model
\* -------------------------------------------------------------------------
\* createEntity calls in one behaviour
MaxEntities == 2
\* destroy requests staged at one time
MaxRequests == 2

\* -------------------------------------------------------------------------
\* Program constants
\* -------------------------------------------------------------------------
\* enum class EntityState, in declaration order
none == 0
initializing == 1
running == 2
teardown == 3

\* a null Entity* / an empty std::unique_ptr<Entity>
nullptr == 0

\* std::numeric_limits<Uid>::max(); the largest id the model's integers
\* hold stands for it (the table compares an id with 0 and with its size
\* before it computes with it)
UidMax == 2147483647

\* the registered systems, in registration order (World::m_Systems)
m_Systems == <<"A", "B">>

SystemNames == {m_Systems[i] : i \in 1..Len(m_Systems)}

\* the template argument packs createEntity is called with
ComponentPacks == {<<"A">>, <<"A", "B">>}

\* an empty std::optional<ComponentInfo>
nullopt == [has |-> FALSE, entity |-> nullptr]

VARIABLES
    m_NextUID,               \* World::m_NextUID
    m_EntityCount,           \* World::m_EntityCount
    m_NewEntities,           \* World::m_NewEntities, a sequence of Entity*
    m_InitializingEntities,  \* World::m_InitializingEntities
    m_Entities,              \* World::m_Entities
    m_TeardownEntities,      \* World::m_TeardownEntities
    m_DestructibleEntities,  \* World::m_DestructibleEntities, a sequence of Uid
    systems,                 \* per system: m_Components and m_ComponentCount
    heap,                    \* the Entity objects ever allocated, by address
    pc,                      \* where the update thread is
    destructibleEntityUIDs,  \* the local of processEntityDestruction
    track,                   \* what is recorded: "none", "created",
                             \* "requested" or "taken"
    ghost,                   \* per Entity: when it was created and requested
    createdInPost,           \* entities created during the running postUpdate
    requestedInPost,         \* entities first requested during it
    lastTaken,               \* the requests as the postUpdate that has just
                             \* returned took them
    data,                    \* TestComponent::data per slot of the TestSystem
    hookLog,                 \* the system hooks invoked in the running cycle
    cycles,                  \* the cycles completed
    bornAt,                  \* per Entity: the hook calls before its creation
    tornAt,                  \* per Entity: the cycle of its teardown, or 0
    creating,                \* the pack of the createEntity call another
                             \* thread is in, under m_NewEntityMx
    callback,                \* the user callback last run by the update
                             \* thread and the World locks held around it
    overlap,                 \* the table operations that overlapped
    called,                  \* the call last made on the table alone: its
                             \* argument, its result and the table before it
    mostActive,              \* the most components that table has held at
                             \* the same time
    testSystem,              \* m_Components of the SystemBase that hands out
                             \* ComponentHandles (src/unnamed/part_009)
    handles,                 \* the ComponentHandle objects of its callers
    handled,                 \* the operation last made on a handle, with
                             \* the handles and the system before it
    stateHooks,              \* the derivedEntityStateChanged calls made
    madeInfos,               \* the component infos the createEntity call of
                             \* the other thread has made, its Entity not
                             \* yet constructed
    newEntities,             \* the vector takeNewEntities has returned to
                             \* processNewEntities, not yet assigned
    foundEntity,             \* the findEntity call another thread made last
    unbound,                 \* the slots forEachComponent visited while
                             \* their entity was unset
    lockedBy,                \* per mutex of the World: the thread that
                             \* holds it, or nobody
    inCall                   \* per thread: the call of the World it is in
                             \* and how far it has come with its locks

\* the World, the update thread's position and the bookkeeping of the calls
lifecycleVars == <<m_NextUID, m_EntityCount, m_NewEntities,
                   m_InitializingEntities, m_Entities, m_TeardownEntities,
                   m_DestructibleEntities, systems, heap, pc,
                   destructibleEntityUIDs, track, ghost, createdInPost,
                   requestedInPost, lastTaken>>

\* the payloads and the hook calls of the test systems
cycleVars == <<data, hookLog, cycles, bornAt, tornAt>>

\* the threads inside the World
threadVars == <<creating, callback, overlap>>

\* the record of the calls made on a table directly
tableVars == <<called, mostActive>>

\* the system with handles and the handles of its components
handleVars == <<testSystem, handles, handled>>

\* the state outside the World and its tables
\* the calls of other threads between the steps of the update thread
raceVars == <<madeInfos, newEntities, foundEntity, unbound>>

\* the mutexes of the World and the threads that take them
lockVars == <<lockedBy, inCall>>

restVars == <<handleVars, stateHooks, raceVars, lockVars>>

vars == <<lifecycleVars, cycleVars, threadVars, tableVars, restVars>>

worldVars == <<m_NextUID, m_EntityCount, m_NewEntities, m_InitializingEntities,
               m_Entities, m_TeardownEntities, m_DestructibleEntities, systems,
               heap>>

Range(s) == {s[i] : i \in 1..Len(s)}

Min(S) == CHOOSE x \in S : \A y \in S : x <= y

\* -------------------------------------------------------------------------
\* SystemBase<TComponent>: the component table
\* -------------------------------------------------------------------------
\* a hasComponent that tests the range and not the slot
hasComponentInRange(system, uid) ==
    /\ 0 < uid
    /\ uid <= Len(system.m_Components)

\* SystemBase::hasComponent
hasComponent(system, uid) ==
    /\ 0 < uid
    /\ uid <= Len(system.m_Components)
    /\ system.m_Components[uid].has

\* a createComponent that takes the last free slot instead of the first
createComponentLastFree(system) ==
    LET c == system.m_Components
        free == {i \in 1..Len(c) : c[i] = nullopt}
        fresh == [has |-> TRUE, entity |-> nullptr]
        last == CHOOSE i \in free : \A j \in free : j <= i
    IN  IF free # {}
        THEN [system |-> [m_Components |-> [c EXCEPT ![last] = fresh],
                          m_ComponentCount |-> system.m_ComponentCount + 1],
              uid |-> last]
        ELSE [system |-> [m_Components |-> Append(c, fresh),
                          m_ComponentCount |-> system.m_ComponentCount + 1],
              uid |-> Len(c) + 1]

\* a createComponent that takes the first slot whether it is free or not
createComponentOverwriting(system) ==
    LET c == system.m_Components
        fresh == [has |-> TRUE, entity |-> nullptr]
    IN  IF c # <<>>
        THEN [system |-> [m_Components |-> [c EXCEPT ![1] = fresh],
                          m_ComponentCount |-> system.m_ComponentCount + 1],
              uid |-> 1]
        ELSE [system |-> [m_Components |-> Append(c, fresh),
                          m_ComponentCount |-> system.m_ComponentCount + 1],
              uid |-> Len(c) + 1]

\* a createComponent that appends a slot whether one is free or not
createComponentAppending(system) ==
    LET c == system.m_Components
        fresh == [has |-> TRUE, entity |-> nullptr]
    IN  [system |-> [m_Components |-> Append(c, fresh),
                     m_ComponentCount |-> system.m_ComponentCount + 1],
         uid |-> Len(c) + 1]

\* SystemBase::createComponent: the first free slot, else a new one
createComponent(system) ==
    LET c == system.m_Components
        free == {i \in 1..Len(c) : c[i] = nullopt}
        fresh == [has |-> TRUE, entity |-> nullptr]
    IN  IF free # {}
        THEN [system |-> [m_Components |-> [c EXCEPT ![Min(free)] = fresh],
                          m_ComponentCount |-> system.m_ComponentCount + 1],
              uid |-> Min(free)]
        ELSE [system |-> [m_Components |-> Append(c, fresh),
                          m_ComponentCount |-> system.m_ComponentCount + 1],
              uid |-> Len(c) + 1]

\* a createComponent that fills the slot first and evaluates a throwing
\* creator after it
createComponentEmplacingFirst(system) ==
    LET c == system.m_Components
        free == {i \in 1..Len(c) : c[i] = nullopt}
        fresh == [has |-> TRUE, entity |-> nullptr]
    IN  IF free # {}
        THEN [system |-> [system EXCEPT !.m_Components[Min(free)] = fresh],
              slot |-> Min(free)]
        ELSE [system |-> [system EXCEPT !.m_Components = Append(c, fresh)],
              slot |-> Len(c) + 1]

\* SystemBase::createComponent with a creator that throws.  creator() is
\* evaluated for the ComponentInfo that is the argument of itr->emplace or
\* of m_Components.emplace_back, so the exception leaves the function
\* before either is called and before ++m_ComponentCount; slot is where the
\* component was to go
createComponentThrowing(system) ==
    LET c == system.m_Components
        free == {i \in 1..Len(c) : c[i] = nullopt}
    IN  IF free # {}
        THEN [system |-> system, slot |-> Min(free)]
        ELSE [system |-> system, slot |-> Len(c) + 1]

\* a setComponentEntity that leaves the back-reference unset
setComponentEntitySkipped(system, uid, entity) == system

\* SystemBase::setComponentEntity (the write happens where the assertion holds)
setComponentEntity(system, uid, entity) ==
    IF hasComponent(system, uid)
    THEN [system EXCEPT !.m_Components[uid].entity = entity]
    ELSE system

\* SystemBase::findComponent: the component of the slot (named by the slot),
\* or nullptr
findComponent(system, uid) ==
    IF 0 < uid /\ uid <= Len(system.m_Components)
    THEN IF system.m_Components[uid].has THEN uid ELSE nullptr
    ELSE nullptr

\* a destroyComponent that resets the slot and leaves m_ComponentCount alone
destroyComponentKeepingCount(system, uid) ==
    IF uid <= Len(system.m_Components) /\ uid >= 1
    THEN [system EXCEPT !.m_Components[uid] = nullopt]
    ELSE system

\* SystemBase::destroyComponent: no occupancy test, the count always drops
\* (a count below 0 stands for the wrapped std::size_t)
destroyComponent(system, uid) ==
    IF uid <= Len(system.m_Components)
    THEN [m_Components |->
              IF uid >= 1
              THEN [system.m_Components EXCEPT ![uid] = nullopt]
              ELSE system.m_Components,
          m_ComponentCount |-> system.m_ComponentCount - 1]
    ELSE system

\* the index uid - 1 of m_Components[uid - 1] in destroyComponent: Uid is
\* the unsigned std::size_t, so 0 - 1 wraps to the largest Uid
indexOfUid(uid) == IF uid = 0 THEN UidMax ELSE uid - 1

\* std::deque::operator[] with an index that is not below size(), followed
\* by reset(): undefined; the write lands outside the table and leaves its
\* slots as they are, or it lands on one of them
resetOutOfBounds(components) ==
    {components}
        \cup {[components EXCEPT ![i] = nullopt] : i \in 1..Len(components)}

\* SystemBase::destroyComponent with the index as the code computes it: the
\* tables the call can leave.  The test uid <= size lets uid 0 through
destroyComponentOfAnyUid(system, uid) ==
    IF uid <= Len(system.m_Components)
    THEN IF indexOfUid(uid) < Len(system.m_Components)
         THEN {destroyComponent(system, uid)}
         ELSE {[m_Components |-> c,
                m_ComponentCount |-> system.m_ComponentCount - 1] :
                   c \in resetOutOfBounds(system.m_Components)}
    ELSE {system}

\* SystemBase::component: the component of the slot, or SystemError
component(system, uid) ==
    IF hasComponent(system, uid)
    THEN [raised |-> FALSE, ref |-> uid]
    ELSE [raised |-> TRUE, ref |-> nullptr]

\* SystemBase::size
size(system) == system.m_ComponentCount

\* the slots of a table that hold a component
occupiedSlots(system) ==
    {i \in 1..Len(system.m_Components) : system.m_Components[i] # nullopt}

\* the assertions of SystemBase::entityStateChanged
entityStateChangedOk(system, uid) ==
    /\ 0 < uid
    /\ uid <= Len(system.m_Components)
    /\ system.m_Components[uid].has
    /\ system.m_Components[uid].entity # nullptr

\* -------------------------------------------------------------------------
\* Entity
\* -------------------------------------------------------------------------
\* detail::isValid(ComponentStorageInfo)
isValid(info) == info.systemPtr \in SystemNames /\ info.componentUid # 0

\* a changeState that notifies the components and does not store the state
changeStateNoStore(e, state, sys) ==
    [e EXCEPT !.notified = Append(@, state),
              !.assertFailed =
                  \/ @
                  \/ ~(e.m_State < state)
                  \/ \E i \in 1..Len(e.m_ComponentInfos) :
                        \/ ~isValid(e.m_ComponentInfos[i])
                        \/ ~entityStateChangedOk(
                               sys[e.m_ComponentInfos[i].systemPtr],
                               e.m_ComponentInfos[i].componentUid)]

\* Entity::changeState: the state is set, then every component is notified;
\* notified and assertFailed record the notifications and the assertions
changeState(e, state, sys) ==
    [e EXCEPT !.m_State = state,
              !.notified = Append(@, state),
              !.assertFailed =
                  \/ @
                  \/ ~(e.m_State < state)
                  \/ \E i \in 1..Len(e.m_ComponentInfos) :
                        \/ ~isValid(e.m_ComponentInfos[i])
                        \/ ~entityStateChangedOk(
                               sys[e.m_ComponentInfos[i].systemPtr],
                               e.m_ComponentInfos[i].componentUid)]

RECURSIVE changeStateEachPromotingTwice(_, _, _, _)
\* the loop, with an entity that is made initializing made running at once
changeStateEachPromotingTwice(h, range, state, sys) ==
    IF range = <<>>
    THEN h
    ELSE changeStateEachPromotingTwice(
             [h EXCEPT ![Head(range)] =
                 IF state = initializing
                 THEN changeState(changeState(@, state, sys), running, sys)
                 ELSE changeState(@, state, sys)],
             Tail(range), state, sys)

RECURSIVE changeStateEach(_, _, _, _)
\* the loops "for (auto& entity : range) entity->changeState(state)"
changeStateEach(h, range, state, sys) ==
    IF range = <<>>
    THEN h
    ELSE changeStateEach(
             [h EXCEPT ![Head(range)] = changeState(@, state, sys)],
             Tail(range), state, sys)

\* SystemBase::entityStateChanged(uid): the derivedEntityStateChanged call it
\* makes, with the component of the slot and the entity of its
\* back-reference, whose state the hook reads; where an assertion fails no
\* entity is passed
entityStateChanged(s, uid, sys, h) ==
    IF entityStateChangedOk(sys[s], uid)
    THEN [system |-> s, component |-> uid,
          entity |-> sys[s].m_Components[uid].entity,
          state |-> h[sys[s].m_Components[uid].entity].m_State]
    ELSE [system |-> s, component |-> uid, entity |-> nullptr, state |-> none]

\* the loop of Entity::changeState, leaving out the last component
entityStateChangedEachButLast(infos, sys, h) ==
    [i \in 1..(Len(infos) - 1) |->
        entityStateChanged(infos[i].systemPtr, infos[i].componentUid, sys, h)]

\* the loop "for (auto& info : m_ComponentInfos)
\* info.rtti->entityStateChanged(...)" of Entity::changeState: its calls
entityStateChangedEach(infos, sys, h) ==
    [i \in 1..Len(infos) |->
        entityStateChanged(infos[i].systemPtr, infos[i].componentUid, sys, h)]

RECURSIVE changeStateEachCalls(_, _, _, _)
\* the derivedEntityStateChanged calls of the loops
\* "for (auto& entity : range) entity->changeState(state)", each made with
\* the heap as the changeState calls before it left it
changeStateEachCalls(h, range, state, sys) ==
    IF range = <<>>
    THEN <<>>
    ELSE LET changed == [h EXCEPT ![Head(range)] = changeState(@, state, sys)]
         IN  entityStateChangedEach(changed[Head(range)].m_ComponentInfos,
                                    sys, changed)
                 \o changeStateEachCalls(changed, Tail(range), state, sys)

RECURSIVE destroyInfosOfFirstSlot(_, _)
\* a destructor that destroys the first slot of each system it names
destroyInfosOfFirstSlot(sys, infos) ==
    IF infos = <<>>
    THEN sys
    ELSE destroyInfosOfFirstSlot(
             [sys EXCEPT ![Head(infos).systemPtr] = destroyComponent(@, 1)],
             Tail(infos))

RECURSIVE destroyInfos(_, _)
\* Entity::~Entity: destroy through the rtti of every component info
destroyInfos(sys, infos) ==
    IF infos = <<>>
    THEN sys
    ELSE destroyInfos(
             [sys EXCEPT ![Head(infos).systemPtr] =
                  destroyComponent(@, Head(infos).componentUid)],
             Tail(infos))

\* a clear that releases the pointers and runs no destructor
destructEachLeaking(st, range) == st

RECURSIVE destructEach(_, _)
\* the destructors a vector of unique_ptr runs when cleared, front to back
destructEach(st, range) ==
    IF range = <<>>
    THEN st
    ELSE IF Head(range) = nullptr
         THEN destructEach(st, Tail(range))
         ELSE destructEach(
                  [heap |-> [st.heap EXCEPT ![Head(range)].destructed = @ + 1],
                   systems |-> destroyInfos(
                                   st.systems,
                                   st.heap[Head(range)].m_ComponentInfos)],
                  Tail(range))

RECURSIVE makeComponentStorageInfos(_, _, _)
\* World::makeComponentStorageInfo for each type of the pack, left to right
makeComponentStorageInfos(sys, pack, infos) ==
    IF pack = <<>>
    THEN [systems |-> sys, infos |-> infos]
    ELSE LET made == createComponent(sys[Head(pack)])
         IN  makeComponentStorageInfos(
                 [sys EXCEPT ![Head(pack)] = made.system],
                 Tail(pack),
                 Append(infos, [systemPtr |-> Head(pack),
                                componentUid |-> made.uid]))

\* World::systemByComponentType<T>: the system registered for T, or
\* SystemError when findSystemByComponentType<T> returns nullptr
systemByComponentType(sys, T) ==
    IF T \in DOMAIN sys
    THEN [raised |-> FALSE, ref |-> T]
    ELSE [raised |-> TRUE, ref |-> nullptr]

RECURSIVE makeComponentStorageInfosOfAnyPack(_, _, _)
\* the braced initializer list of createEntity,
\* { makeComponentStorageInfo(systemByComponentType<TComponent>())... },
\* evaluated left to right for a pack whose types need not be registered:
\* the SystemError of a type leaves the list where the components of the
\* types before it have been created
makeComponentStorageInfosOfAnyPack(sys, pack, infos) ==
    IF pack = <<>>
    THEN [systems |-> sys, infos |-> infos, raised |-> FALSE]
    ELSE LET found == systemByComponentType(sys, Head(pack))
         IN  IF found.raised
             THEN [systems |-> sys, infos |-> infos, raised |-> TRUE]
             ELSE LET made == createComponent(sys[found.ref])
                  IN  makeComponentStorageInfosOfAnyPack(
                          [sys EXCEPT ![found.ref] = made.system],
                          Tail(pack),
                          Append(infos, [systemPtr |-> found.ref,
                                         componentUid |-> made.uid]))

RECURSIVE setComponentEntityEach(_, _, _)
\* Entity::setComponentEntity, called by the constructor
setComponentEntityEach(sys, infos, entity) ==
    IF infos = <<>>
    THEN sys
    ELSE setComponentEntityEach(
             [sys EXCEPT ![Head(infos).systemPtr] =
                  setComponentEntity(@, Head(infos).componentUid, entity)],
             Tail(infos), entity)

\* a constructor that leaves m_Uid at its default member initializer
EntityDefaultUid(uid, componentInfos) ==
    [m_Uid |-> 0,
     m_State |-> none,
     m_ComponentInfos |-> componentInfos,
     destructed |-> 0,
     notified |-> <<>>,
     assertFailed |-> (uid = 0)]

\* Entity::Entity
Entity(uid, componentInfos) ==
    [m_Uid |-> uid,
     m_State |-> none,
     m_ComponentInfos |-> componentInfos,
     destructed |-> 0,
     notified |-> <<>>,
     assertFailed |-> (uid = 0)]

\* -------------------------------------------------------------------------
\* World: lookups
\* -------------------------------------------------------------------------
\* EntityLessByUid::uid of a container element
uidOf(ptr) == heap[ptr].m_Uid

RECURSIVE lower_bound(_, _, _, _)
\* std::lower_bound(begin, end, uid, EntityLessByUid{}) by bisection
lower_bound(container, first, count, uid) ==
    IF count <= 0
    THEN first
    ELSE LET step == count \div 2
             it == first + step
         IN  IF uidOf(container[it]) < uid
             THEN lower_bound(container, it + 1, count - (step + 1), uid)
             ELSE lower_bound(container, first, step, uid)

\* World::findEntityItr: the position found, or Len + 1 for end
findEntityItr(container, uid) ==
    LET itr == lower_bound(container, 1, Len(container), uid)
    IN  IF itr <= Len(container) /\ uidOf(container[itr]) = uid
        THEN itr
        ELSE Len(container) + 1

\* a findEntity that leaves out the teardown queue
findEntityNoTeardown(uid) ==
    IF findEntityItr(m_Entities, uid) <= Len(m_Entities)
    THEN m_Entities[findEntityItr(m_Entities, uid)]
    ELSE IF findEntityItr(m_InitializingEntities, uid)
                <= Len(m_InitializingEntities)
    THEN m_InitializingEntities[findEntityItr(m_InitializingEntities, uid)]
    ELSE IF findEntityItr(m_NewEntities, uid) <= Len(m_NewEntities)
    THEN m_NewEntities[findEntityItr(m_NewEntities, uid)]
    ELSE nullptr

\* World::findEntity: running, initializing, new, teardown, in this order
findEntity(uid) ==
    IF findEntityItr(m_Entities, uid) <= Len(m_Entities)
    THEN m_Entities[findEntityItr(m_Entities, uid)]
    ELSE IF findEntityItr(m_InitializingEntities, uid)
                <= Len(m_InitializingEntities)
    THEN m_InitializingEntities[findEntityItr(m_InitializingEntities, uid)]
    ELSE IF findEntityItr(m_NewEntities, uid) <= Len(m_NewEntities)
    THEN m_NewEntities[findEntityItr(m_NewEntities, uid)]
    ELSE IF findEntityItr(m_TeardownEntities, uid) <= Len(m_TeardownEntities)
    THEN m_TeardownEntities[findEntityItr(m_TeardownEntities, uid)]
    ELSE nullptr

\* World::entity: the reference, or EntityError
entity(uid) ==
    IF findEntity(uid) # nullptr
    THEN [raised |-> FALSE, ref |-> findEntity(uid)]
    ELSE [raised |-> TRUE, ref |-> nullptr]

\* World::entityCount
entityCount == m_EntityCount

\* -------------------------------------------------------------------------
\* World: the algorithms of processEntityDestruction
\* -------------------------------------------------------------------------
RECURSIVE insertSorted(_, _)
insertSorted(sorted, x) ==
    IF sorted = <<>> \/ x <= Head(sorted)
    THEN <<x>> \o sorted
    ELSE <<Head(sorted)>> \o insertSorted(Tail(sorted), x)

RECURSIVE sort(_)
\* std::sort of the uids
sort(ids) ==
    IF ids = <<>> THEN <<>> ELSE insertSorted(sort(Tail(ids)), Head(ids))

RECURSIVE unique(_)
\* std::unique and erase: one of each run of equal neighbours is kept
unique(ids) ==
    IF Len(ids) <= 1
    THEN ids
    ELSE IF ids[1] = ids[2]
         THEN unique(Tail(ids))
         ELSE <<Head(ids)>> \o unique(Tail(ids))

RECURSIVE set_intersection(_, _, _, _, _)
\* std::set_intersection over move iterators of entityRange and the ids:
\* a matching unique_ptr is moved to out and leaves nullptr behind
set_intersection(entityRange, first1, ids, first2, out) ==
    IF first1 > Len(entityRange) \/ first2 > Len(ids)
    THEN [entityRange |-> entityRange, out |-> out]
    ELSE IF uidOf(entityRange[first1]) < ids[first2]
         THEN set_intersection(entityRange, first1 + 1, ids, first2, out)
         ELSE IF ids[first2] < uidOf(entityRange[first1])
              THEN set_intersection(entityRange, first1, ids, first2 + 1, out)
              ELSE set_intersection(
                       [entityRange EXCEPT ![first1] = nullptr],
                       first1 + 1, ids, first2 + 1,
                       Append(out, entityRange[first1]))

\* std::remove(begin, end, nullptr) and erase
removeNull(entityRange) == SelectSeq(entityRange, LAMBDA ptr : ptr # nullptr)

\* a moveDestructibleEntities that leaves the moved pointers in entityRange
moveDestructibleEntitiesCopying(entityRange, destructibleIds, teardownEntities) ==
    LET moved == set_intersection(entityRange, 1, destructibleIds, 1,
                                  teardownEntities)
    IN  [entityRange |-> entityRange,
         teardownEntities |-> moved.out]

\* the lambda moveDestructibleEntities of processEntityDestruction
moveDestructibleEntities(entityRange, destructibleIds, teardownEntities) ==
    LET moved == set_intersection(entityRange, 1, destructibleIds, 1,
                                  teardownEntities)
    IN  [entityRange |-> removeNull(moved.entityRange),
         teardownEntities |-> moved.out]

\* the unique of processEntityDestruction without the sort before it
sortedUniqueIdsUnsorted(ids) == unique(ids)

\* the sort and unique of processEntityDestruction
sortedUniqueIds(ids) == unique(sort(ids))

\* a takeNewEntities that copies the list and leaves m_NewEntities as it is
takeNewEntitiesCopying ==
    [tmp |-> m_NewEntities, m_NewEntities |-> m_NewEntities]

\* a takeNewEntities that leaves the entity created last in m_NewEntities
takeNewEntitiesButLast ==
    IF m_NewEntities = <<>>
    THEN [tmp |-> <<>>, m_NewEntities |-> <<>>]
    ELSE [tmp |-> SubSeq(m_NewEntities, 1, Len(m_NewEntities) - 1),
          m_NewEntities |-> <<m_NewEntities[Len(m_NewEntities)]>>]

\* World::takeNewEntities: the list is moved out, m_NewEntities is left empty
takeNewEntities ==
    [tmp |-> m_NewEntities, m_NewEntities |-> <<>>]

\* a takeDestructibleEntityUIDs that copies the list and leaves the staged
\* requests as they are
takeDestructibleEntityUIDsCopying ==
    [tmp |-> m_DestructibleEntities,
     m_DestructibleEntities |-> m_DestructibleEntities]

\* World::takeDestructibleEntityUIDs
takeDestructibleEntityUIDs ==
    [tmp |-> m_DestructibleEntities, m_DestructibleEntities |-> <<>>]

\* -------------------------------------------------------------------------
\* Bookkeeping of when an entity was created and requested, relative to the
\* postUpdate calls (read by the properties only)
\* -------------------------------------------------------------------------
\* the entities of the new, initializing and running queues
liveNotTeardown ==
    (Range(m_NewEntities) \cup Range(m_InitializingEntities)
        \cup Range(m_Entities)) \ {nullptr}

inPostUpdate == pc # "idle"

\* Where the calls of other threads (and of user hooks) are interleaved with
\* the update thread.  A call between processInitializingEntities and
\* processNewEntities acts as one before both, and a call between the taking
\* of the requests and the moves acts as createEntity before the taking and
\* as destroyEntityLater after the moves: the step in between touches nothing
\* the call reads or writes.
yieldPoint ==
    pc \in {"idle", "processInitializingEntities", "clearTeardownEntities",
            "takeDestructibleEntityUIDs"}

\* where the update thread is when createEntity runs: in no postUpdate, in
\* one that has not yet drained the new queue, or in one that has
bornWhere ==
    IF pc = "idle" THEN "idle"
    ELSE IF pc \in {"processInitializingEntities", "processNewEntities"}
         THEN "window"
         ELSE "afterDrain"

\* the requests not yet processed
pendingRequests ==
    Range(m_DestructibleEntities) \cup Range(destructibleEntityUIDs)

Sat(n) == IF n >= 2 THEN 2 ELSE n + 1

\* The record kept per entity:
\*   born, posts:  where createEntity ran, and how many postUpdate calls that
\*                 started after it have returned (2 stands for 2 or more)
\*   req:          a request naming its uid was pending at its creation or
\*                 was submitted since
\*   reqWhere, reqPosts: where the first request naming it while it was in
\*                 the new, initializing or running queue was submitted, and
\*                 how many postUpdate calls that started after it returned
\* What no property reads any more is set to one value: born and posts of
\* a requested entity or of one past its second postUpdate, reqWhere past
\* the second postUpdate;
\* and so is what the behaviour does not track.
settled == [born |-> "idle", posts |-> 2]

ghostOf(born, posts, req, reqWhere, reqPosts) ==
    [born |-> IF track # "created" \/ req \/ posts = 2
              THEN settled.born ELSE born,
     posts |-> IF track # "created" \/ req THEN settled.posts ELSE posts,
     req |-> track = "created" /\ req,
     reqWhere |-> IF track # "requested" THEN "none"
                  ELSE IF reqPosts = 2 THEN "idle" ELSE reqWhere,
     reqPosts |-> IF track # "requested" THEN 0 ELSE reqPosts]

\* createEntity has made the entity ptr
ghostCreate(ptr, uid) ==
    /\ ghost' = Append(ghost, ghostOf(bornWhere, 0, uid \in pendingRequests,
                                      "none", 0))
    /\ createdInPost' = IF inPostUpdate /\ track = "created"
                        THEN createdInPost \cup {ptr}
                        ELSE createdInPost
    /\ lastTaken' = <<>>
    /\ UNCHANGED <<track, requestedInPost>>

\* destroyEntityLater(uid) is called
ghostRequest(uid) ==
    LET named == {p \in liveNotTeardown : heap[p].m_Uid = uid}
        first == {p \in named : ghost[p].reqWhere = "none"}
    IN  /\ ghost' = [p \in DOMAIN ghost |->
                        ghostOf(ghost[p].born, ghost[p].posts,
                                ghost[p].req \/ heap[p].m_Uid = uid,
                                IF p \notin named THEN ghost[p].reqWhere
                                ELSE IF ~inPostUpdate THEN "idle"
                                ELSE IF p \in first THEN "post"
                                ELSE ghost[p].reqWhere,
                                ghost[p].reqPosts)]
        /\ requestedInPost' = IF inPostUpdate /\ track = "requested"
                              THEN requestedInPost \cup first
                              ELSE requestedInPost
        /\ lastTaken' = <<>>
        /\ UNCHANGED <<track, createdInPost>>

\* a postUpdate call returns, leaving the entities of stillLive in the new,
\* initializing and running queues: the call counts for what was created or
\* requested before it started.  An entity created in the call after the
\* drain of the new queue, or requested in it after the requests were taken,
\* is from here on as one created or requested right after the call.
postUpdateReturns(stillLive) ==
    /\ ghost' = [p \in DOMAIN ghost |->
                    ghostOf(IF ghost[p].born = "afterDrain"
                            THEN "idle" ELSE ghost[p].born,
                            IF p \in createdInPost
                            THEN ghost[p].posts ELSE Sat(ghost[p].posts),
                            ghost[p].req,
                            IF ghost[p].reqWhere = "post" /\ p \in stillLive
                            THEN "idle" ELSE ghost[p].reqWhere,
                            IF ghost[p].reqWhere = "none"
                               \/ p \in requestedInPost
                            THEN ghost[p].reqPosts
                            ELSE Sat(ghost[p].reqPosts))]
    /\ createdInPost' = {}
    /\ requestedInPost' = {}
    /\ UNCHANGED track

\* the requests are taken
ghostTake(tmp) == lastTaken' = IF track = "taken" THEN tmp ELSE <<>>

ghostVars == <<track, ghost, createdInPost, requestedInPost, lastTaken>>

\* -------------------------------------------------------------------------
\* ComponentHandle and the SystemBase that hands it out
\* -------------------------------------------------------------------------
\* the ComponentHandle objects the callers have room for
MaxHandles == 3

HandleObjects == 1..MaxHandles

\* &testSystem
addressOfTestSystem == 1

\* an empty std::optional<ComponentInfo> of that system
noComponentInfo == [has |-> FALSE, entityUID |-> 0]

\* ComponentHandle(): m_UID = 0 and m_System = nullptr
defaultHandle == [alive |-> TRUE, m_UID |-> 0, m_System |-> nullptr]

\* the storage of a handle object outside its lifetime
noHandle == [alive |-> FALSE, m_UID |-> 0, m_System |-> nullptr]

\* ComponentHandle(uid, system)
ComponentHandle(uid, system) ==
    [alive |-> TRUE, m_UID |-> uid, m_System |-> system]

isEmpty(handle) == handle.m_UID = 0

\* std::find(begin, end, std::nullopt) of createComponent: an index, or
\* Len + 1 for std::end
findNullopt(components) ==
    IF \E i \in 1..Len(components) : ~components[i].has
    THEN Min({i \in 1..Len(components) : ~components[i].has})
    ELSE Len(components) + 1

\* SystemBase::createComponent(entityUID): the components after it and the
\* handle it returns
createComponentHandle(components, entityUID) ==
    LET itr == findNullopt(components)
        info == [has |-> TRUE, entityUID |-> entityUID]
    IN  IF itr # Len(components) + 1
        THEN [components |-> [components EXCEPT ![itr] = info],
              handle |-> ComponentHandle(itr, addressOfTestSystem)]
        ELSE [components |-> Append(components, info),
              handle |-> ComponentHandle(Len(components) + 1,
                                         addressOfTestSystem)]

\* SystemBase::getComponentPtr(uid): the slot of the component, or nullptr
getComponentPtr(components, uid) ==
    IF 0 < uid /\ uid <= Len(components)
    THEN IF components[uid].has THEN uid ELSE nullptr
    ELSE nullptr

\* SystemBase::componentCount(): the size less the count of std::nullopt
componentCount(components) ==
    Len(components)
        - Cardinality({i \in 1..Len(components) : ~components[i].has})

\* SystemBase::deleteComponent(uid)
deleteComponent(components, uid) ==
    IF uid <= Len(components)
    THEN [components EXCEPT ![uid] = noComponentInfo]
    ELSE components

\* a move assignment that copies and leaves the other handle as it was
moveAssignmentCopying(this, other) ==
    [this |-> [this EXCEPT !.m_UID = other.m_UID,
                           !.m_System = other.m_System],
     other |-> other]

\* ComponentHandle::operator =(ComponentHandle&&): the two swaps
moveAssignment(this, other) ==
    [this |-> [this EXCEPT !.m_UID = other.m_UID,
                           !.m_System = other.m_System],
     other |-> [other EXCEPT !.m_UID = this.m_UID,
                             !.m_System = this.m_System]]

\* ComponentHandle(ComponentHandle&&): the members take their defaults and
\* the move assignment runs
moveConstruction(other) == moveAssignment(defaultHandle, other)

\* ~ComponentHandle(): the components of the system after it
destructHandle(handle, components) ==
    IF ~isEmpty(handle)
    THEN deleteComponent(components, handle.m_UID)
    ELSE components

\* ComponentHandle::release(): *this = ComponentHandle{}, and the temporary
\* is destructed at the end of the statement
releaseHandle(this, components) ==
    LET assigned == moveAssignment(this, defaultHandle)
    IN  [this |-> assigned.this,
         components |-> destructHandle(assigned.other, components)]

\* -------------------------------------------------------------------------
\* The mutexes of the World and the threads that call it
\* -------------------------------------------------------------------------
\* the threads, beside the update thread, that call the World
MaxCallers == 2
\* createEntity calls those threads make in one behaviour
MaxCreated == 1
\* destroy requests of those threads staged at one time
MaxStaged == 1

Callers == 1..MaxCallers

\* the thread that calls preUpdate, update and postUpdate
updateThread == 0

Threads == Callers \cup {updateThread}

\* the owner of a std::mutex that is not locked
nobody == -1

\* World::m_NewEntityMx, m_EntityMx and m_DestructibleEntityMx
Mutexes == {"m_NewEntityMx", "m_EntityMx", "m_DestructibleEntityMx"}

\* a thread in no call that takes a lock.  first is the mutex std::lock
\* calls lock() on in its next round: the first argument of
\* std::scoped_lock{ m_EntityMx, m_NewEntityMx } to begin with
outside == [call |-> "none", at |-> "outside", first |-> "m_EntityMx"]

\* -------------------------------------------------------------------------
\* Initial state: a World with its systems registered and no entity
\* -------------------------------------------------------------------------
InitWorld ==
    /\ m_NextUID = 1
    /\ m_EntityCount = 0
    /\ m_NewEntities = <<>>
    /\ m_InitializingEntities = <<>>
    /\ m_Entities = <<>>
    /\ m_TeardownEntities = <<>>
    /\ m_DestructibleEntities = <<>>
    /\ systems = [s \in SystemNames |->
                     [m_Components |-> <<>>, m_ComponentCount |-> 0]]
    /\ heap = <<>>
    /\ pc = "idle"
    /\ destructibleEntityUIDs = <<>>
    /\ ghost = <<>>
    /\ createdInPost = {}
    /\ requestedInPost = {}
    /\ lastTaken = <<>>
    /\ data = <<>>
    /\ hookLog = <<>>
    /\ cycles = 0
    /\ bornAt = <<>>
    /\ tornAt = <<>>
    /\ creating = <<>>
    /\ callback = [kind |-> "none", locks |-> {}]
    /\ overlap = {}
    /\ called = [op |-> "none", uid |-> 0, result |-> 0, raised |-> FALSE,
                 before |-> [m_Components |-> <<>>, m_ComponentCount |-> 0],
                 payloads |-> <<>>]
    /\ mostActive = 0
    /\ testSystem = <<>>
    /\ handles = [h \in HandleObjects |-> noHandle]
    /\ handled = [op |-> "none", this |-> 0, other |-> 0,
                  before |-> [testSystem |-> <<>>,
                              handles |-> [h \in HandleObjects |-> noHandle]]]
    /\ stateHooks = <<>>
    /\ madeInfos = <<>>
    /\ newEntities = <<>>
    /\ foundEntity = [uid |-> 0, result |-> nullptr, live |-> nullptr]
    /\ unbound = {}
    /\ lockedBy = [m \in Mutexes |-> nobody]
    /\ inCall = [t \in Threads |-> outside]

Init == InitWorld /\ track = "none"

InitCreated == InitWorld /\ track = "created"

InitRequested == InitWorld /\ track = "requested"

InitTaken == InitWorld /\ track = "taken"

\* -------------------------------------------------------------------------
\* Calls of any thread
\* -------------------------------------------------------------------------
\* a createEntity that leaves m_EntityCount as it is
createEntityUncounted(pack) ==
    /\ yieldPoint
    /\ m_NextUID <= MaxEntities
    /\ LET entityUID == m_NextUID
           made == makeComponentStorageInfos(systems, pack, <<>>)
           ptr == Len(heap) + 1
       IN  /\ m_NextUID' = m_NextUID + 1
           /\ heap' = Append(heap, Entity(entityUID, made.infos))
           /\ systems' = setComponentEntityEach(made.systems, made.infos, ptr)
           /\ m_NewEntities' = Append(m_NewEntities, ptr)
           /\ ghostCreate(ptr, entityUID)
    /\ UNCHANGED <<m_EntityCount, m_InitializingEntities, m_Entities,
                   m_TeardownEntities, m_DestructibleEntities, pc,
                   destructibleEntityUIDs>>

\* World::createEntity<pack...>(), all of it under m_NewEntityMx
createEntity(pack) ==
    /\ yieldPoint
    /\ m_NextUID <= MaxEntities
    /\ LET entityUID == m_NextUID
           made == makeComponentStorageInfos(systems, pack, <<>>)
           ptr == Len(heap) + 1
       IN  /\ m_NextUID' = m_NextUID + 1
           /\ heap' = Append(heap, Entity(entityUID, made.infos))
           /\ systems' = setComponentEntityEach(made.systems, made.infos, ptr)
           /\ m_NewEntities' = Append(m_NewEntities, ptr)
           /\ m_EntityCount' = m_EntityCount + 1
           /\ ghostCreate(ptr, entityUID)
    /\ UNCHANGED <<m_InitializingEntities, m_Entities, m_TeardownEntities,
                   m_DestructibleEntities, pc, destructibleEntityUIDs>>

\* a destroyEntityLater that also takes the entity out of the count at once
destroyEntityLaterCounting(uid) ==
    /\ yieldPoint
    /\ Len(m_DestructibleEntities) < MaxRequests
    /\ m_DestructibleEntities' = Append(m_DestructibleEntities, uid)
    /\ m_EntityCount' = m_EntityCount - 1
    /\ ghostRequest(uid)
    /\ UNCHANGED <<m_NextUID, m_NewEntities, m_InitializingEntities,
                   m_Entities, m_TeardownEntities, systems, heap, pc,
                   destructibleEntityUIDs>>

\* World::destroyEntityLater(uid), under m_DestructibleEntityMx
destroyEntityLater(uid) ==
    /\ yieldPoint
    /\ Len(m_DestructibleEntities) < MaxRequests
    /\ m_DestructibleEntities' = Append(m_DestructibleEntities, uid)
    /\ ghostRequest(uid)
    /\ UNCHANGED <<m_NextUID, m_EntityCount, m_NewEntities,
                   m_InitializingEntities, m_Entities, m_TeardownEntities,
                   systems, heap, pc, destructibleEntityUIDs>>

\* -------------------------------------------------------------------------
\* The update thread
\* -------------------------------------------------------------------------
\* World::preUpdate: the preUpdate hook of every system (SystemBase's is empty)
preUpdate ==
    /\ pc = "idle"
    /\ UNCHANGED vars

\* World::update: the update hook of every system (SystemBase's is empty)
update ==
    /\ pc = "idle"
    /\ UNCHANGED vars

\* World::postUpdate begins: postUpdateSystems (SystemBase's hook is empty)
postUpdateSystems ==
    /\ pc = "idle"
    /\ pc' = "processInitializingEntities"
    /\ lastTaken' = <<>>
    /\ UNCHANGED <<worldVars, destructibleEntityUIDs, track, ghost,
                   createdInPost, requestedInPost>>

\* a processInitializingEntities that inserts at the begin of m_Entities
processInitializingEntitiesInFront ==
    /\ pc = "processInitializingEntities"
    /\ pc' = "processNewEntities"
    /\ IF m_InitializingEntities = <<>>
       THEN UNCHANGED <<heap, m_Entities, m_InitializingEntities>>
       ELSE /\ heap' = changeStateEach(heap, m_InitializingEntities, running,
                                       systems)
            /\ m_Entities' = m_InitializingEntities \o m_Entities
            /\ m_InitializingEntities' = <<>>
    /\ UNCHANGED <<m_NextUID, m_EntityCount, m_NewEntities, m_TeardownEntities,
                   m_DestructibleEntities, systems, destructibleEntityUIDs,
                   ghostVars>>

\* World::processInitializingEntities
processInitializingEntities ==
    /\ pc = "processInitializingEntities"
    /\ pc' = "processNewEntities"
    /\ IF m_InitializingEntities = <<>>
       THEN UNCHANGED <<heap, m_Entities, m_InitializingEntities>>
       ELSE /\ heap' = changeStateEach(heap, m_InitializingEntities, running,
                                       systems)
            /\ m_Entities' = m_Entities \o m_InitializingEntities
            /\ m_InitializingEntities' = <<>>
    /\ UNCHANGED <<m_NextUID, m_EntityCount, m_NewEntities, m_TeardownEntities,
                   m_DestructibleEntities, systems, destructibleEntityUIDs,
                   ghostVars>>

\* World::processNewEntities: the move assignment destructs what the
\* initializing queue still held
processNewEntities ==
    /\ pc = "processNewEntities"
    /\ pc' = "clearTeardownEntities"
    /\ LET taken == takeNewEntities
           st == destructEach([heap |-> heap, systems |-> systems],
                              m_InitializingEntities)
       IN  /\ m_InitializingEntities' = taken.tmp
           /\ m_NewEntities' = taken.m_NewEntities
           /\ systems' = st.systems
           /\ heap' = changeStateEach(st.heap, taken.tmp, initializing,
                                      st.systems)
    /\ UNCHANGED <<m_NextUID, m_EntityCount, m_Entities, m_TeardownEntities,
                   m_DestructibleEntities, destructibleEntityUIDs, ghostVars>>

\* a first part of processEntityDestruction that leaves the teardown queue
\* as it is
clearTeardownEntitiesSkipped ==
    /\ pc = "clearTeardownEntities"
    /\ pc' = "takeDestructibleEntityUIDs"
    /\ UNCHANGED <<worldVars, destructibleEntityUIDs, ghostVars>>

\* World::processEntityDestruction, first part: the teardown queue is cleared
clearTeardownEntities ==
    /\ pc = "clearTeardownEntities"
    /\ pc' = "takeDestructibleEntityUIDs"
    /\ LET st == destructEach([heap |-> heap, systems |-> systems],
                              m_TeardownEntities)
       IN  /\ m_EntityCount' = m_EntityCount - Len(m_TeardownEntities)
           /\ heap' = st.heap
           /\ systems' = st.systems
           /\ m_TeardownEntities' = <<>>
    /\ UNCHANGED <<m_NextUID, m_NewEntities, m_InitializingEntities,
                   m_Entities, m_DestructibleEntities, destructibleEntityUIDs,
                   ghostVars>>

\* World::processEntityDestruction, second part: the requests are taken,
\* sorted and made unique; with none the function, and postUpdate, returns
takeRequests ==
    /\ pc = "takeDestructibleEntityUIDs"
    /\ LET taken == takeDestructibleEntityUIDs
       IN  /\ m_DestructibleEntities' = taken.m_DestructibleEntities
           /\ IF taken.tmp = <<>>
              THEN /\ pc' = "idle"
                   /\ destructibleEntityUIDs' = <<>>
                   /\ postUpdateReturns(liveNotTeardown)
              ELSE /\ pc' = "moveDestructibleEntities"
                   /\ destructibleEntityUIDs' = sortedUniqueIds(taken.tmp)
                   /\ UNCHANGED <<track, ghost, createdInPost,
                                  requestedInPost>>
           /\ ghostTake(taken.tmp)
    /\ UNCHANGED <<m_NextUID, m_EntityCount, m_NewEntities,
                   m_InitializingEntities, m_Entities, m_TeardownEntities,
                   systems, heap>>

\* a processEntityDestruction that moves the entities and leaves their
\* states as they are
processEntityDestructionKeepingStates ==
    /\ pc = "moveDestructibleEntities"
    /\ pc' = "idle"
    /\ LET ids == destructibleEntityUIDs
           m1 == moveDestructibleEntities(m_Entities, ids, m_TeardownEntities)
           m2 == moveDestructibleEntities(m_InitializingEntities, ids,
                                          m1.teardownEntities)
           m3 == moveDestructibleEntities(m_NewEntities, ids,
                                          m2.teardownEntities)
       IN  /\ m_Entities' = m1.entityRange
           /\ m_InitializingEntities' = m2.entityRange
           /\ m_NewEntities' = m3.entityRange
           /\ m_TeardownEntities' = m3.teardownEntities
           /\ heap' = heap
           /\ postUpdateReturns(Range(m1.entityRange)
                                    \cup Range(m2.entityRange)
                                    \cup Range(m3.entityRange))
    /\ destructibleEntityUIDs' = <<>>
    /\ UNCHANGED lastTaken
    /\ UNCHANGED <<m_NextUID, m_EntityCount, m_DestructibleEntities, systems>>

\* World::processEntityDestruction, third part, under m_EntityMx and
\* m_NewEntityMx: the three moves and the teardown notifications
processEntityDestruction ==
    /\ pc = "moveDestructibleEntities"
    /\ pc' = "idle"
    /\ LET ids == destructibleEntityUIDs
           m1 == moveDestructibleEntities(m_Entities, ids, m_TeardownEntities)
           m2 == moveDestructibleEntities(m_InitializingEntities, ids,
                                          m1.teardownEntities)
           m3 == moveDestructibleEntities(m_NewEntities, ids,
                                          m2.teardownEntities)
       IN  /\ m_Entities' = m1.entityRange
           /\ m_InitializingEntities' = m2.entityRange
           /\ m_NewEntities' = m3.entityRange
           /\ m_TeardownEntities' = m3.teardownEntities
           /\ heap' = changeStateEach(heap, m3.teardownEntities, teardown,
                                      systems)
           /\ postUpdateReturns(Range(m1.entityRange)
                                    \cup Range(m2.entityRange)
                                    \cup Range(m3.entityRange))
    /\ destructibleEntityUIDs' = <<>>
    /\ UNCHANGED lastTaken
    /\ UNCHANGED <<m_NextUID, m_EntityCount, m_DestructibleEntities, systems>>

\* the World with systems that keep SystemBase's empty hooks, its calls
\* taken as indivisible
Next ==
    \/ \E pack \in ComponentPacks :
          /\ createEntity(pack)
          /\ UNCHANGED <<cycleVars, threadVars, tableVars, restVars>>
    \/ \E uid \in 1..MaxEntities :
          /\ destroyEntityLater(uid)
          /\ UNCHANGED <<cycleVars, threadVars, tableVars, restVars>>
    \/ preUpdate
    \/ update
    \/ /\ postUpdateSystems
       /\ UNCHANGED <<cycleVars, threadVars, tableVars, restVars>>
    \/ /\ processInitializingEntities
       /\ UNCHANGED <<cycleVars, threadVars, tableVars, restVars>>
    \/ /\ processNewEntities
       /\ UNCHANGED <<cycleVars, threadVars, tableVars, restVars>>
    \/ /\ clearTeardownEntities
       /\ UNCHANGED <<cycleVars, threadVars, tableVars, restVars>>
    \/ /\ takeRequests
       /\ UNCHANGED <<cycleVars, threadVars, tableVars, restVars>>
    \/ /\ processEntityDestruction
       /\ UNCHANGED <<cycleVars, threadVars, tableVars, restVars>>

Spec == Init /\ [][Next]_vars

\* the same World, with the bookkeeping of creation times
SpecCreated == InitCreated /\ [][Next]_vars

\* the same World, with the bookkeeping of request times
SpecRequested == InitRequested /\ [][Next]_vars

\* the same World, with the record of the requests last taken
SpecTaken == InitTaken /\ [][Next]_vars

\* -------------------------------------------------------------------------
\* The World called with component types that have no system
\* -------------------------------------------------------------------------
\* packs that name the component type "C", for which no system is registered
\* (SystemTest.cpp 163 does so with Test2Component)
UnregisteredPacks == {<<"C">>, <<"A", "C">>, <<"C", "A">>, <<"A", "B", "C">>}

\* World::createEntity<pack...>() that leaves with the SystemError of
\* systemByComponentType: m_NextUID++ has been executed, and so has
\* createComponent for the types before the unregistered one; emplace_back
\* and ++m_EntityCount are not reached
createEntityRaises(pack) ==
    /\ yieldPoint
    /\ m_NextUID <= MaxEntities
    /\ LET made == makeComponentStorageInfosOfAnyPack(systems, pack, <<>>)
       IN  /\ made.raised
           /\ m_NextUID' = m_NextUID + 1
           /\ systems' = made.systems
    /\ UNCHANGED <<m_EntityCount, m_NewEntities, m_InitializingEntities,
                   m_Entities, m_TeardownEntities, m_DestructibleEntities,
                   heap, pc, destructibleEntityUIDs, ghostVars>>

InitErrors == InitWorld /\ track = "none"

NextErrors ==
    \/ Next
    \/ \E pack \in UnregisteredPacks :
          /\ createEntityRaises(pack)
          /\ UNCHANGED <<cycleVars, threadVars, tableVars, restVars>>

\* the World and callers that ask for components of unregistered types
SpecErrors == InitErrors /\ [][NextErrors]_vars

\* -------------------------------------------------------------------------
\* The test systems (TestUtility.hpp) driven through whole cycles by one
\* thread, as SystemTest.cpp and the README's main loop do: preUpdate, update,
\* postUpdate in this order, createEntity before a cycle and
\* destroyEntityLater between any two calls
\* -------------------------------------------------------------------------
\* cycles in one behaviour
MaxCycles == 3

\* the system registered first is the TestSystem of TestComponent, the other
\* the Test2System of the empty Test2Component
TestSystem == m_Systems[1]

\* what TestSystem::preUpdate, update and postUpdate add to component.data;
\* Test2System keeps the empty hooks of SystemBase
TestSystemAdds(hook) ==
    CASE hook = "preUpdate" -> 1
      [] hook = "update" -> 2
      [] hook = "postUpdate" -> 4

\* the TestComponent a creator constructs in a slot: "int data = 0"
emplace(payloads, uid) ==
    IF uid <= Len(payloads)
    THEN [payloads EXCEPT ![uid] = 0]
    ELSE Append(payloads, 0)

\* a forEachComponent that stops after the first slot
forEachComponentFirstOnly(system, payloads, amount) ==
    [i \in 1..Len(payloads) |->
        IF system.m_Components[i].has /\ i = 1
        THEN payloads[i] + amount
        ELSE payloads[i]]

\* SystemBase::forEachComponent with the TestSystem's lambda: every occupied
\* slot is visited
forEachComponent(system, payloads, amount) ==
    [i \in 1..Len(payloads) |->
        IF system.m_Components[i].has
        THEN payloads[i] + amount
        ELSE payloads[i]]

RECURSIVE updateSystemsBackwards(_, _, _)
\* a loop over m_Systems from the last registered system to the first
updateSystemsBackwards(hook, i, st) ==
    IF i > Len(m_Systems)
    THEN st
    ELSE LET s == m_Systems[Len(m_Systems) + 1 - i]
         IN  updateSystemsBackwards(
                 hook, i + 1,
                 [data |-> IF s = TestSystem
                           THEN forEachComponent(systems[s], st.data,
                                                 TestSystemAdds(hook))
                           ELSE st.data,
                  hookLog |-> Append(st.hookLog, <<s, hook>>)])

RECURSIVE updateSystems(_, _, _)
\* the loops "for (auto& system : m_Systems) system->hook()" of
\* World::preUpdate, update and postUpdateSystems
updateSystems(hook, i, st) ==
    IF i > Len(m_Systems)
    THEN st
    ELSE LET s == m_Systems[i]
         IN  updateSystems(
                 hook, i + 1,
                 [data |-> IF s = TestSystem
                           THEN forEachComponent(systems[s], st.data,
                                                 TestSystemAdds(hook))
                           ELSE st.data,
                  hookLog |-> Append(st.hookLog, <<s, hook>>)])

RECURSIVE find(_, _, _)
\* std::ranges::find over the infos, projected to componentTypeIndex (each
\* system stores one component type and names it): the first position from
\* first on that holds the type T, or Len + 1 for end
find(container, first, T) ==
    IF first > Len(container) \/ container[first].systemPtr = T
    THEN first
    ELSE find(container, first + 1, T)

\* a findComponentInfo that takes the first info whatever its type
findComponentInfoAnyType(componentInfos, T) == 1

\* Entity::findComponentInfo
findComponentInfo(componentInfos, T) == find(componentInfos, 1, T)

\* the component types a caller may name: those of the registered systems
\* and one that no system stores
ComponentTypes == SystemNames \cup {"C"}

\* Entity::hasComponent<T>
Entity_hasComponent(e, T) ==
    findComponentInfo(e.m_ComponentInfos, T) <= Len(e.m_ComponentInfos)

\* Entity::findComponent<T>: through the rtti of the info, the component in
\* the system's table sys holds (named by its slot), or nullptr
Entity_findComponent(e, T, sys) ==
    LET itr == findComponentInfo(e.m_ComponentInfos, T)
    IN  IF itr <= Len(e.m_ComponentInfos)
        THEN findComponent(sys[e.m_ComponentInfos[itr].systemPtr],
                           e.m_ComponentInfos[itr].componentUid)
        ELSE nullptr

\* Entity::component<T>: the component, or EntityError
Entity_component(e, T, sys) ==
    LET componentPtr == Entity_findComponent(e, T, sys)
    IN  IF componentPtr # nullptr
        THEN [raised |-> FALSE, ref |-> componentPtr]
        ELSE [raised |-> TRUE, ref |-> nullptr]

\* the calls of World::preUpdate, update and postUpdate so far
hookCalls == 3 * cycles + (Len(hookLog) \div Len(m_Systems))

InitCycle == InitWorld /\ track = "none"

\* createEntity between two cycles, as the test calls it; the creator
\* constructs the TestComponent in the slot createComponent chose
createEntityInCycle(pack) ==
    /\ pc = "idle"
    /\ hookLog = <<>>
    /\ createEntity(pack)
    /\ LET made == makeComponentStorageInfos(systems, pack, <<>>)
           at == findComponentInfo(made.infos, TestSystem)
       IN  data' = IF at <= Len(made.infos)
                   THEN emplace(data, made.infos[at].componentUid)
                   ELSE data
    /\ bornAt' = Append(bornAt, hookCalls)
    /\ tornAt' = Append(tornAt, 0)
    /\ UNCHANGED <<hookLog, cycles, threadVars, tableVars, restVars>>

\* destroyEntityLater between two calls of the World
destroyEntityLaterInCycle(uid) ==
    /\ pc = "idle"
    /\ destroyEntityLater(uid)
    /\ UNCHANGED <<cycleVars, threadVars, tableVars, restVars>>

\* World::preUpdate with the test systems
preUpdateInCycle ==
    /\ pc = "idle"
    /\ hookLog = <<>>
    /\ cycles < MaxCycles
    /\ LET st == updateSystems("preUpdate", 1,
                               [data |-> data, hookLog |-> hookLog])
       IN  data' = st.data /\ hookLog' = st.hookLog
    /\ UNCHANGED <<lifecycleVars, cycles, bornAt, tornAt, threadVars,
                   tableVars, restVars>>

\* World::update with the test systems
updateInCycle ==
    /\ pc = "idle"
    /\ Len(hookLog) = Len(m_Systems)
    /\ LET st == updateSystems("update", 1,
                               [data |-> data, hookLog |-> hookLog])
       IN  data' = st.data /\ hookLog' = st.hookLog
    /\ UNCHANGED <<lifecycleVars, cycles, bornAt, tornAt, threadVars,
                   tableVars, restVars>>

\* World::postUpdate begins: postUpdateSystems with the test systems
postUpdateSystemsInCycle ==
    /\ Len(hookLog) = 2 * Len(m_Systems)
    /\ postUpdateSystems
    /\ LET st == updateSystems("postUpdate", 1,
                               [data |-> data, hookLog |-> hookLog])
       IN  data' = st.data /\ hookLog' = st.hookLog
    /\ UNCHANGED <<cycles, bornAt, tornAt, threadVars, tableVars, restVars>>

\* processInitializingEntities and the state-change hooks it invokes
processInitializingEntitiesInCycle ==
    /\ processInitializingEntities
    /\ stateHooks' = stateHooks
                         \o changeStateEachCalls(heap, m_InitializingEntities,
                                                 running, systems)
    /\ UNCHANGED <<cycleVars, threadVars, tableVars, handleVars, raceVars,
                   lockVars>>

\* processNewEntities and the state-change hooks it invokes
processNewEntitiesInCycle ==
    /\ processNewEntities
    /\ LET st == destructEach([heap |-> heap, systems |-> systems],
                              m_InitializingEntities)
       IN  stateHooks' = stateHooks
                             \o changeStateEachCalls(
                                    st.heap, m_InitializingEntities',
                                    initializing, st.systems)
    /\ UNCHANGED <<cycleVars, threadVars, tableVars, handleVars, raceVars,
                   lockVars>>

\* processEntityDestruction finds no request: postUpdate returns and the
\* cycle is over
takeRequestsInCycle ==
    /\ takeRequests
    /\ IF pc' = "idle"
       THEN hookLog' = <<>> /\ cycles' = cycles + 1
       ELSE UNCHANGED <<hookLog, cycles>>
    /\ UNCHANGED <<data, bornAt, tornAt, threadVars, tableVars, restVars>>

\* the moves and the teardown notifications: postUpdate returns and the
\* cycle is over
processEntityDestructionInCycle ==
    /\ processEntityDestruction
    /\ tornAt' = [p \in DOMAIN tornAt |->
                     IF heap'[p].m_State = teardown
                        /\ heap[p].m_State # teardown
                     THEN cycles + 1
                     ELSE tornAt[p]]
    /\ hookLog' = <<>>
    /\ cycles' = cycles + 1
    /\ stateHooks' = stateHooks
                         \o changeStateEachCalls(heap, m_TeardownEntities',
                                                 teardown, systems)
    /\ UNCHANGED <<data, bornAt, threadVars, tableVars, handleVars,
                   raceVars, lockVars>>

NextCycle ==
    \/ \E pack \in ComponentPacks : createEntityInCycle(pack)
    \/ \E uid \in 1..MaxEntities : destroyEntityLaterInCycle(uid)
    \/ preUpdateInCycle
    \/ updateInCycle
    \/ postUpdateSystemsInCycle
    \/ processInitializingEntitiesInCycle
    \/ processNewEntitiesInCycle
    \/ /\ clearTeardownEntities
       /\ UNCHANGED <<cycleVars, threadVars, tableVars, restVars>>
    \/ takeRequestsInCycle
    \/ processEntityDestructionInCycle

\* the World with the test systems, driven cycle by cycle
SpecCycle == InitCycle /\ [][NextCycle]_vars

\* -------------------------------------------------------------------------
\* The World with its locks: the update thread, and another thread whose
\* createEntity call is taken in two steps, so that the update thread can
\* run while that call is inside createComponent.  The systems' hooks visit
\* their components with forEachComponent, as those of the TestSystem and
\* of the README's MySystem do.
\* -------------------------------------------------------------------------
\* the locks the update thread holds while it runs the systems' hooks
locksAtSystemHooks == {}

\* processNewEntities: takeNewEntities has released m_NewEntityMx before
\* the loop of changeState(initializing)
locksAtInitializingNotification == {}

\* processInitializingEntities: the loop of changeState(running) comes
\* before the scoped_lock of m_EntityMx
locksAtRunningNotification == {}

\* processEntityDestruction: the loop of changeState(teardown) is in the
\* scope of "std::scoped_lock entityLock{ m_EntityMx, m_NewEntityMx }"
locksAtTeardownNotification == {"m_EntityMx", "m_NewEntityMx"}

\* the locks a call of the World acquires
locksOf(call) ==
    CASE call = "createEntity" -> {"m_NewEntityMx"}
      [] call = "destroyEntityLater" -> {"m_DestructibleEntityMx"}
      [] call = "findEntity" -> {"m_EntityMx", "m_NewEntityMx"}

\* the calls a user callback may make
ReentrantCalls == {"createEntity", "destroyEntityLater", "findEntity"}

\* the other thread holds m_NewEntityMx from the first line of createEntity
\* to its return
m_NewEntityMxFree == creating = <<>>

\* the systems whose table the entity destructors of a cleared range enter
\* with destroyComponent
destroyedIn(range) ==
    UNION {{heap[ptr].m_ComponentInfos[j].systemPtr :
               j \in 1..Len(heap[ptr].m_ComponentInfos)} :
           ptr \in Range(range) \ {nullptr}}

\* the systems whose hook visits the table with forEachComponent
visitedByHooks == {TestSystem}

\* the pairs of table operations that run at the same time when the update
\* thread enters the tables of these systems with op while the other thread
\* is inside createEntity
overlapping(op, entered) ==
    {<<"createComponent", op, s>> : s \in entered \cap Range(creating)}

InitThreads == InitWorld /\ track = "none"

\* another thread enters createEntity: it locks m_NewEntityMx and goes on to
\* makeComponentStorageInfo, that is createComponent, for each type of pack
createEntityEnters(pack) ==
    /\ m_NewEntityMxFree
    /\ m_NextUID <= MaxEntities
    /\ creating' = pack
    /\ overlap' = {}
    /\ UNCHANGED <<lifecycleVars, cycleVars, tableVars, restVars, callback>>

\* that thread's createEntity completes and the lock is released
createEntityReturns ==
    /\ creating # <<>>
    /\ LET entityUID == m_NextUID
           made == makeComponentStorageInfos(systems, creating, <<>>)
           ptr == Len(heap) + 1
       IN  /\ m_NextUID' = m_NextUID + 1
           /\ heap' = Append(heap, Entity(entityUID, made.infos))
           /\ systems' = setComponentEntityEach(made.systems, made.infos, ptr)
           /\ m_NewEntities' = Append(m_NewEntities, ptr)
           /\ m_EntityCount' = m_EntityCount + 1
           /\ ghostCreate(ptr, entityUID)
    /\ creating' = <<>>
    /\ overlap' = {}
    /\ UNCHANGED <<m_InitializingEntities, m_Entities, m_TeardownEntities,
                   m_DestructibleEntities, pc, destructibleEntityUIDs,
                   cycleVars, tableVars, restVars, callback>>

\* destroyEntityLater of any thread, under m_DestructibleEntityMx
destroyEntityLaterOfAnyThread(uid) ==
    /\ destroyEntityLater(uid)
    /\ overlap' = {}
    /\ UNCHANGED <<cycleVars, tableVars, restVars, creating, callback>>

\* World::preUpdate: the hooks run with no lock held
preUpdateOfUpdateThread ==
    /\ pc = "idle"
    /\ callback' = [kind |-> "preUpdate", locks |-> locksAtSystemHooks]
    /\ overlap' = overlapping("forEachComponent", visitedByHooks)
    /\ UNCHANGED <<lifecycleVars, cycleVars, tableVars, restVars, creating>>

\* World::update: the hooks run with no lock held
updateOfUpdateThread ==
    /\ pc = "idle"
    /\ callback' = [kind |-> "update", locks |-> locksAtSystemHooks]
    /\ overlap' = overlapping("forEachComponent", visitedByHooks)
    /\ UNCHANGED <<lifecycleVars, cycleVars, tableVars, restVars, creating>>

\* World::postUpdateSystems: the hooks run with no lock held
postUpdateSystemsOfUpdateThread ==
    /\ postUpdateSystems
    /\ callback' = [kind |-> "postUpdate", locks |-> locksAtSystemHooks]
    /\ overlap' = overlapping("forEachComponent", visitedByHooks)
    /\ UNCHANGED <<cycleVars, tableVars, restVars, creating>>

\* World::processInitializingEntities: the running notifications, then the
\* move under m_EntityMx
processInitializingEntitiesOfUpdateThread ==
    /\ processInitializingEntities
    /\ callback' = IF m_InitializingEntities = <<>>
                   THEN callback
                   ELSE [kind |-> "running",
                         locks |-> locksAtRunningNotification]
    /\ overlap' = {}
    /\ UNCHANGED <<cycleVars, tableVars, restVars, creating>>

\* World::processNewEntities: takeNewEntities waits for m_NewEntityMx; the
\* initializing notifications follow its return
processNewEntitiesOfUpdateThread ==
    /\ m_NewEntityMxFree
    /\ processNewEntities
    /\ callback' = IF m_NewEntities = <<>>
                   THEN callback
                   ELSE [kind |-> "initializing",
                         locks |-> locksAtInitializingNotification]
    /\ overlap' = {}
    /\ UNCHANGED <<cycleVars, tableVars, restVars, creating>>

\* m_TeardownEntities.clear(): the entity destructors run destroyComponent
\* with no lock held
clearTeardownEntitiesOfUpdateThread ==
    /\ clearTeardownEntities
    /\ overlap' = overlapping("destroyComponent",
                              destroyedIn(m_TeardownEntities))
    /\ UNCHANGED <<cycleVars, tableVars, restVars, creating, callback>>

\* the requests are taken under m_DestructibleEntityMx
takeRequestsOfUpdateThread ==
    /\ takeRequests
    /\ overlap' = {}
    /\ UNCHANGED <<cycleVars, tableVars, restVars, creating, callback>>

\* the moves and the teardown notifications, all in the scope of the
\* scoped_lock of m_EntityMx and m_NewEntityMx
processEntityDestructionOfUpdateThread ==
    /\ m_NewEntityMxFree
    /\ processEntityDestruction
    /\ callback' = IF m_TeardownEntities' = <<>>
                   THEN callback
                   ELSE [kind |-> "teardown",
                         locks |-> locksAtTeardownNotification]
    /\ overlap' = {}
    /\ UNCHANGED <<cycleVars, tableVars, restVars, creating>>

NextThreads ==
    \/ \E pack \in ComponentPacks : createEntityEnters(pack)
    \/ createEntityReturns
    \/ \E uid \in 1..MaxEntities : destroyEntityLaterOfAnyThread(uid)
    \/ preUpdateOfUpdateThread
    \/ updateOfUpdateThread
    \/ postUpdateSystemsOfUpdateThread
    \/ processInitializingEntitiesOfUpdateThread
    \/ processNewEntitiesOfUpdateThread
    \/ clearTeardownEntitiesOfUpdateThread
    \/ takeRequestsOfUpdateThread
    \/ processEntityDestructionOfUpdateThread

\* the World with the update thread and a thread that creates entities
SpecThreads == InitThreads /\ [][NextThreads]_vars

\* postUpdate keeps being called and its calls return: the update thread
\* goes on from step to step, also where it has to wait for m_NewEntityMx,
\* which the other thread gives up again and again; a createEntity call that
\* has begun returns
SpecThreadsFair ==
    /\ SpecThreads
    /\ WF_vars(createEntityReturns)
    /\ WF_vars(postUpdateSystemsOfUpdateThread)
    /\ WF_vars(processInitializingEntitiesOfUpdateThread)
    /\ SF_vars(processNewEntitiesOfUpdateThread)
    /\ WF_vars(clearTeardownEntitiesOfUpdateThread)
    /\ WF_vars(takeRequestsOfUpdateThread)
    /\ SF_vars(processEntityDestructionOfUpdateThread)

\* -------------------------------------------------------------------------
\* The threads step by step: createEntity of another thread between its
\* createComponent calls and the Entity constructor, processNewEntities
\* between takeNewEntities and the assignment of what it returned, and
\* findEntity of another thread
\* -------------------------------------------------------------------------
InitRaces == InitWorld /\ track = "none"

\* the occupied slots forEachComponent finds with info->entity unset: its
\* assertion fails for them
forEachComponentUnbound(s) ==
    {<<s, i>> : i \in {j \in 1..Len(systems[s].m_Components) :
                          /\ systems[s].m_Components[j].has
                          /\ systems[s].m_Components[j].entity = nullptr}}

\* what the hooks of one call visit unbound
visitedUnbound == UNION {forEachComponentUnbound(s) : s \in visitedByHooks}

\* the entity of this uid that is constructed and not destructed, if any
liveEntityOf(uid) ==
    IF \E p \in DOMAIN heap : heap[p].m_Uid = uid /\ heap[p].destructed = 0
    THEN CHOOSE p \in DOMAIN heap :
             heap[p].m_Uid = uid /\ heap[p].destructed = 0
    ELSE nullptr

\* createEntity, under m_NewEntityMx: the arguments of the Entity constructor
\* are evaluated, makeComponentStorageInfo for each type of the pack
createEntityMakesComponents ==
    /\ creating # <<>>
    /\ madeInfos = <<>>
    /\ LET infos == makeComponentStorageInfos(systems, creating, <<>>)
       IN  /\ systems' = infos.systems
           /\ madeInfos' = infos.infos
    /\ overlap' = {}
    /\ UNCHANGED <<m_NextUID, m_EntityCount, m_NewEntities,
                   m_InitializingEntities, m_Entities, m_TeardownEntities,
                   m_DestructibleEntities, heap, pc, destructibleEntityUIDs,
                   ghostVars, cycleVars, tableVars, handleVars, stateHooks,
                   lockVars,
                   creating, callback, newEntities, foundEntity, unbound>>

\* createEntity: the Entity is constructed and binds its components, it is
\* put into m_NewEntities and counted; the call returns
createEntityConstructs ==
    /\ madeInfos # <<>>
    /\ LET entityUID == m_NextUID
           ptr == Len(heap) + 1
       IN  /\ m_NextUID' = m_NextUID + 1
           /\ heap' = Append(heap, Entity(entityUID, madeInfos))
           /\ systems' = setComponentEntityEach(systems, madeInfos, ptr)
           /\ m_NewEntities' = Append(m_NewEntities, ptr)
           /\ m_EntityCount' = m_EntityCount + 1
           /\ ghostCreate(ptr, entityUID)
    /\ creating' = <<>>
    /\ madeInfos' = <<>>
    /\ overlap' = {}
    /\ UNCHANGED <<m_InitializingEntities, m_Entities, m_TeardownEntities,
                   m_DestructibleEntities, pc, destructibleEntityUIDs,
                   cycleVars, tableVars, handleVars, stateHooks,
                   lockVars, callback,
                   newEntities, foundEntity, unbound>>

\* findEntity(uid) of another thread, under m_EntityMx and m_NewEntityMx
findEntityOfOtherThread(uid) ==
    /\ m_NewEntityMxFree
    /\ foundEntity' = [uid |-> uid, result |-> findEntity(uid),
                 live |-> liveEntityOf(uid)]
    /\ overlap' = {}
    /\ UNCHANGED <<lifecycleVars, cycleVars, tableVars, handleVars,
                   stateHooks,
                   lockVars, creating, callback, madeInfos, newEntities,
                   unbound>>

\* World::preUpdate: the hooks visit the components, with no lock held
preUpdateVisits ==
    /\ pc = "idle"
    /\ callback' = [kind |-> "preUpdate", locks |-> locksAtSystemHooks]
    /\ overlap' = overlapping("forEachComponent", visitedByHooks)
    /\ unbound' = unbound \cup visitedUnbound
    /\ UNCHANGED <<lifecycleVars, cycleVars, tableVars, handleVars,
                   stateHooks,
                   lockVars, creating, madeInfos, newEntities, foundEntity>>

\* World::update: the hooks visit the components, with no lock held
updateVisits ==
    /\ pc = "idle"
    /\ callback' = [kind |-> "update", locks |-> locksAtSystemHooks]
    /\ overlap' = overlapping("forEachComponent", visitedByHooks)
    /\ unbound' = unbound \cup visitedUnbound
    /\ UNCHANGED <<lifecycleVars, cycleVars, tableVars, handleVars,
                   stateHooks,
                   lockVars, creating, madeInfos, newEntities, foundEntity>>

\* World::postUpdateSystems: the hooks visit the components, with no lock
\* held
postUpdateSystemsVisits ==
    /\ postUpdateSystems
    /\ callback' = [kind |-> "postUpdate", locks |-> locksAtSystemHooks]
    /\ overlap' = overlapping("forEachComponent", visitedByHooks)
    /\ unbound' = unbound \cup visitedUnbound
    /\ UNCHANGED <<cycleVars, tableVars, handleVars, stateHooks,
                   lockVars, creating,
                   madeInfos, newEntities, foundEntity>>

\* processNewEntities calls takeNewEntities: under m_NewEntityMx the new
\* queue is moved out; the lock is released as the function returns
takeNewEntitiesOfUpdateThread ==
    /\ pc = "processNewEntities"
    /\ m_NewEntityMxFree
    /\ pc' = "assignInitializingEntities"
    /\ newEntities' = takeNewEntities.tmp
    /\ m_NewEntities' = takeNewEntities.m_NewEntities
    /\ overlap' = {}
    /\ UNCHANGED <<m_NextUID, m_EntityCount, m_InitializingEntities,
                   m_Entities, m_TeardownEntities, m_DestructibleEntities,
                   systems, heap, destructibleEntityUIDs, ghostVars,
                   cycleVars, tableVars, handleVars, stateHooks,
                   lockVars, creating,
                   callback, madeInfos, foundEntity, unbound>>

\* processNewEntities: what takeNewEntities returned is move assigned to
\* m_InitializingEntities, with no lock held, and the entities are notified
assignInitializingEntities ==
    /\ pc = "assignInitializingEntities"
    /\ pc' = "clearTeardownEntities"
    /\ LET st == destructEach([heap |-> heap, systems |-> systems],
                              m_InitializingEntities)
       IN  /\ m_InitializingEntities' = newEntities
           /\ systems' = st.systems
           /\ heap' = changeStateEach(st.heap, newEntities, initializing,
                                      st.systems)
    /\ newEntities' = <<>>
    /\ callback' = IF newEntities = <<>>
                   THEN callback
                   ELSE [kind |-> "initializing",
                         locks |-> locksAtInitializingNotification]
    /\ overlap' = {}
    /\ UNCHANGED <<m_NextUID, m_EntityCount, m_NewEntities, m_Entities,
                   m_TeardownEntities, m_DestructibleEntities,
                   destructibleEntityUIDs, ghostVars, cycleVars, tableVars,
                   handleVars, stateHooks,
                   lockVars, creating, madeInfos, foundEntity,
                   unbound>>

NextRaces ==
    \/ \E pack \in ComponentPacks : createEntityEnters(pack)
    \/ createEntityMakesComponents
    \/ createEntityConstructs
    \/ \E uid \in 1..MaxEntities : findEntityOfOtherThread(uid)
    \/ \E uid \in 1..MaxEntities : destroyEntityLaterOfAnyThread(uid)
    \/ preUpdateVisits
    \/ updateVisits
    \/ postUpdateSystemsVisits
    \/ processInitializingEntitiesOfUpdateThread
    \/ takeNewEntitiesOfUpdateThread
    \/ assignInitializingEntities
    \/ clearTeardownEntitiesOfUpdateThread
    \/ takeRequestsOfUpdateThread
    \/ processEntityDestructionOfUpdateThread

\* the World, the update thread and the calls of another thread, step by
\* step
SpecRaces == InitRaces /\ [][NextRaces]_vars

\* -------------------------------------------------------------------------
\* One component table alone (the TestSystem's), called directly: the
\* public createComponent, findComponent, hasComponent and component, and
\* destroyComponent as reached through detail::ComponentRtti
\* -------------------------------------------------------------------------
\* slots the table grows to
MaxSlots == 3

\* the slot ids the calls are made with
TableIds == 0..(MaxSlots + 1) \cup {UidMax}

theTable == systems[TestSystem]

InitTable == InitWorld /\ track = "none"

\* the components the table holds after the call, if more than ever before
mostActiveAfterCall ==
    LET active == Cardinality(occupiedSlots(systems'[TestSystem]))
    IN  mostActive' = IF active > mostActive THEN active ELSE mostActive

\* createComponent(): the creator's TestComponent is constructed in the slot
createComponentOnTable ==
    /\ \/ Len(theTable.m_Components) < MaxSlots
       \/ \E i \in 1..Len(theTable.m_Components) :
             theTable.m_Components[i] = nullopt
    /\ LET made == createComponent(theTable)
       IN  /\ systems' = [systems EXCEPT ![TestSystem] = made.system]
           /\ data' = emplace(data, made.uid)
           /\ called' = [op |-> "createComponent", uid |-> 0,
                         result |-> made.uid, raised |-> FALSE,
                         before |-> theTable, payloads |-> data]
           /\ mostActiveAfterCall
    /\ UNCHANGED <<m_NextUID, m_EntityCount, m_NewEntities,
                   m_InitializingEntities, m_Entities, m_TeardownEntities,
                   m_DestructibleEntities, heap, pc, destructibleEntityUIDs,
                   ghostVars, hookLog, cycles, bornAt, tornAt, threadVars,
                   restVars>>

\* createComponent(creator) with a creator that throws: the exception
\* reaches the caller
createComponentThrowsOnTable ==
    /\ LET thrown == createComponentThrowing(theTable)
       IN  /\ systems' = [systems EXCEPT ![TestSystem] = thrown.system]
           /\ called' = [op |-> "creatorThrew", uid |-> thrown.slot,
                         result |-> 0, raised |-> TRUE,
                         before |-> theTable, payloads |-> data]
           /\ mostActiveAfterCall
    /\ UNCHANGED <<m_NextUID, m_EntityCount, m_NewEntities,
                   m_InitializingEntities, m_Entities, m_TeardownEntities,
                   m_DestructibleEntities, heap, pc, destructibleEntityUIDs,
                   ghostVars, cycleVars, threadVars, restVars>>

\* destroyComponent(uid), for the id of a slot or the one past the last; the
\* calls stop once the count has wrapped
destroyComponentOnTable(uid) ==
    /\ size(theTable) >= 0
    /\ systems' = [systems EXCEPT ![TestSystem] = destroyComponent(@, uid)]
    /\ called' = [op |-> "destroyComponent", uid |-> uid, result |-> 0,
                  raised |-> FALSE, before |-> theTable, payloads |-> data]
    /\ mostActiveAfterCall
    /\ UNCHANGED <<m_NextUID, m_EntityCount, m_NewEntities,
                   m_InitializingEntities, m_Entities, m_TeardownEntities,
                   m_DestructibleEntities, heap, pc, destructibleEntityUIDs,
                   ghostVars, cycleVars, threadVars, restVars>>

\* destroyComponent(uid) with an id that names no slot: 0, or one above the
\* size of m_Components.  result is the index the call used on m_Components,
\* 0 when it used none
destroyComponentOutOfRangeOnTable(uid) ==
    /\ size(theTable) >= 0
    /\ uid = 0 \/ uid > Len(theTable.m_Components)
    /\ \E left \in destroyComponentOfAnyUid(theTable, uid) :
          systems' = [systems EXCEPT ![TestSystem] = left]
    /\ called' = [op |-> "destroyOutOfRange", uid |-> uid,
                  result |-> IF uid <= Len(theTable.m_Components)
                             THEN indexOfUid(uid)
                             ELSE 0,
                  raised |-> FALSE, before |-> theTable, payloads |-> data]
    /\ mostActiveAfterCall
    /\ UNCHANGED <<m_NextUID, m_EntityCount, m_NewEntities,
                   m_InitializingEntities, m_Entities, m_TeardownEntities,
                   m_DestructibleEntities, heap, pc, destructibleEntityUIDs,
                   ghostVars, cycleVars, threadVars, restVars>>

\* hasComponent(uid), findComponent(uid) and component(uid) are called
lookupOnTable(uid) ==
    /\ called' = [op |-> "component", uid |-> uid,
                  result |-> findComponent(theTable, uid),
                  raised |-> component(theTable, uid).raised,
                  before |-> theTable, payloads |-> data]
    /\ UNCHANGED mostActive
    /\ UNCHANGED <<lifecycleVars, cycleVars, threadVars, restVars>>

\* the caller writes to the TestComponent that component(uid) returned
writeComponentOnTable(uid) ==
    /\ ~component(theTable, uid).raised
    /\ data' = [data EXCEPT ![component(theTable, uid).ref] = 1]
    /\ called' = [op |-> "write", uid |-> uid,
                  result |-> component(theTable, uid).ref, raised |-> FALSE,
                  before |-> theTable, payloads |-> data]
    /\ UNCHANGED mostActive
    /\ UNCHANGED <<lifecycleVars, hookLog, cycles, bornAt, tornAt,
                   threadVars, restVars>>

NextTable ==
    \/ createComponentOnTable
    \/ createComponentThrowsOnTable
    \/ \E uid \in 1..(MaxSlots + 1) : destroyComponentOnTable(uid)
    \/ \E uid \in {0, UidMax} : destroyComponentOutOfRangeOnTable(uid)
    \/ \E uid \in TableIds : lookupOnTable(uid)
    \/ \E uid \in TableIds : writeComponentOnTable(uid)

\* one table and its callers
SpecTable == InitTable /\ [][NextTable]_vars

\* -------------------------------------------------------------------------
\* One system and the ComponentHandles of its callers
\* -------------------------------------------------------------------------
InitHandles == InitWorld /\ track = "none"

\* what the next operation on a handle is recorded with
handledBy(op, this, other) ==
    [op |-> op, this |-> this, other |-> other,
     before |-> [testSystem |-> testSystem, handles |-> handles]]

\* auto handle = testSystem.createComponent(entityUID)
createComponentOfHandle(this, entityUID) ==
    /\ ~handles[this].alive
    /\ LET made == createComponentHandle(testSystem, entityUID)
       IN  /\ testSystem' = made.components
           /\ handles' = [handles EXCEPT ![this] = made.handle]
    /\ handled' = handledBy("createComponent", this, 0)
    /\ UNCHANGED <<lifecycleVars, cycleVars, threadVars, tableVars,
                   stateHooks, raceVars,
                   lockVars>>

\* a handle is move constructed from another: optional::emplace(std::move(other))
moveConstruct(this, other) ==
    /\ this # other
    /\ ~handles[this].alive
    /\ handles[other].alive
    /\ LET moved == moveConstruction(handles[other])
       IN  handles' = [handles EXCEPT ![this] = moved.this,
                                      ![other] = moved.other]
    /\ handled' = handledBy("moveConstruct", this, other)
    /\ UNCHANGED <<lifecycleVars, cycleVars, threadVars, tableVars,
                   testSystem, stateHooks, raceVars,
                   lockVars>>

\* this = std::move(other), of two handles in their lifetime
moveAssign(this, other) ==
    /\ this # other
    /\ handles[this].alive
    /\ handles[other].alive
    /\ LET moved == moveAssignment(handles[this], handles[other])
       IN  handles' = [handles EXCEPT ![this] = moved.this,
                                      ![other] = moved.other]
    /\ handled' = handledBy("moveAssign", this, other)
    /\ UNCHANGED <<lifecycleVars, cycleVars, threadVars, tableVars,
                   testSystem, stateHooks, raceVars,
                   lockVars>>

\* this.release()
release(this) ==
    /\ handles[this].alive
    /\ LET released == releaseHandle(handles[this], testSystem)
       IN  /\ handles' = [handles EXCEPT ![this] = released.this]
           /\ testSystem' = released.components
    /\ handled' = handledBy("release", this, 0)
    /\ UNCHANGED <<lifecycleVars, cycleVars, threadVars, tableVars,
                   stateHooks, raceVars,
                   lockVars>>

\* the lifetime of a handle ends
destruct(this) ==
    /\ handles[this].alive
    /\ testSystem' = destructHandle(handles[this], testSystem)
    /\ handles' = [handles EXCEPT ![this] = noHandle]
    /\ handled' = handledBy("destruct", this, 0)
    /\ UNCHANGED <<lifecycleVars, cycleVars, threadVars, tableVars,
                   stateHooks, raceVars,
                   lockVars>>

NextHandles ==
    \/ \E this \in HandleObjects, entityUID \in 1..MaxEntities :
          createComponentOfHandle(this, entityUID)
    \/ \E this, other \in HandleObjects : moveConstruct(this, other)
    \/ \E this, other \in HandleObjects : moveAssign(this, other)
    \/ \E this \in HandleObjects : release(this)
    \/ \E this \in HandleObjects : destruct(this)

\* one system, its handles and their callers
SpecHandles == InitHandles /\ [][NextHandles]_vars

\* -------------------------------------------------------------------------
\* The World with its three mutexes: the update thread and the threads of
\* Callers, each in createEntity, destroyEntityLater or findEntity.  A call
\* takes its locks, then runs and returns; the callbacks of the update
\* thread make no call of the World.
\* -------------------------------------------------------------------------
\* the locks the step of postUpdate the update thread is at takes
locksOfStep ==
    CASE pc = "processInitializingEntities" ->
             IF m_InitializingEntities = <<>> THEN {} ELSE {"m_EntityMx"}
      [] pc = "processNewEntities" -> {"m_NewEntityMx"}
      [] pc = "takeDestructibleEntityUIDs" -> {"m_DestructibleEntityMx"}
      [] pc = "moveDestructibleEntities" -> {"m_EntityMx", "m_NewEntityMx"}
      [] OTHER -> {}

\* the locks the thread is to hold for what it does next
wanted(t) ==
    IF t = updateThread
    THEN locksOfStep
    ELSE IF inCall[t].call = "none" THEN {} ELSE locksOf(inCall[t].call)

held(t) == {m \in Mutexes : lockedBy[m] = t}

\* the thread is at the constructor of its std::scoped_lock
atLock(t) ==
    IF t = updateThread
    THEN inCall[t].at = "outside" /\ wanted(t) # {}
    ELSE inCall[t].at = "lock"

\* the callers inside the call
callersIn(call) == {t \in Callers : inCall[t].call = call}

\* a scoped_lock whose destructor leaves its mutexes locked
unlockedNever(t) ==
    /\ lockedBy' = lockedBy
    /\ inCall' = [inCall EXCEPT ![t] = outside]

\* the destructor of the std::scoped_lock at the end of the call or step
unlocked(t) ==
    /\ lockedBy' = [m \in Mutexes |->
                       IF lockedBy[m] = t THEN nobody ELSE lockedBy[m]]
    /\ inCall' = [inCall EXCEPT ![t] = outside]

\* a thread of Callers calls the World; the calls are as many as the bounds
\* of the model leave room for
enters(t, call) ==
    /\ inCall[t] = outside
    /\ call = "createEntity" =>
           m_NextUID + Cardinality(callersIn(call)) <= MaxCreated
    /\ call = "destroyEntityLater" =>
           Len(m_DestructibleEntities) + Cardinality(callersIn(call))
               < MaxStaged
    /\ inCall' = [inCall EXCEPT ![t].call = call, ![t].at = "lock"]
    /\ UNCHANGED <<lifecycleVars, cycleVars, threadVars, tableVars,
                   handleVars, stateHooks, raceVars, lockedBy>>

\* std::scoped_lock of one mutex: mutex::lock, which waits until it is free
scopedLock(t) ==
    /\ atLock(t)
    /\ \E m \in wanted(t) :
          /\ wanted(t) = {m}
          /\ lockedBy[m] = nobody
          /\ lockedBy' = [lockedBy EXCEPT ![m] = t]
    /\ inCall' = [inCall EXCEPT ![t].at = "locked"]
    /\ UNCHANGED <<lifecycleVars, cycleVars, threadVars, tableVars,
                   handleVars, stateHooks, raceVars>>

\* std::scoped_lock of two mutexes, that is std::lock, as the standard
\* libraries implement it: lock() on one mutex, which waits until it is free
lockFirst(t) ==
    /\ atLock(t)
    /\ Cardinality(wanted(t)) = 2
    /\ lockedBy[inCall[t].first] = nobody
    /\ lockedBy' = [lockedBy EXCEPT ![inCall[t].first] = t]
    /\ inCall' = [inCall EXCEPT ![t].at = "try"]
    /\ UNCHANGED <<lifecycleVars, cycleVars, threadVars, tableVars,
                   handleVars, stateHooks, raceVars>>

\* std::lock: try_lock() on the other mutex finds it free
tryLockSucceeds(t) ==
    /\ inCall[t].at = "try"
    /\ \E m \in wanted(t) \ held(t) :
          /\ lockedBy[m] = nobody
          /\ lockedBy' = [lockedBy EXCEPT ![m] = t]
    /\ inCall' = [inCall EXCEPT ![t].at = "locked"]
    /\ UNCHANGED <<lifecycleVars, cycleVars, threadVars, tableVars,
                   handleVars, stateHooks, raceVars>>

\* std::lock: try_lock() on the other mutex finds it held; the first is
\* unlocked again and the next round begins with lock() on the other
tryLockFails(t) ==
    /\ inCall[t].at = "try"
    /\ \E m \in wanted(t) \ held(t) :
          /\ lockedBy[m] # nobody
          /\ inCall' = [inCall EXCEPT
                           ![t].at = IF t = updateThread
                                     THEN "outside" ELSE "lock",
                           ![t].first = m]
    /\ lockedBy' = [n \in Mutexes |->
                       IF lockedBy[n] = t THEN nobody ELSE lockedBy[n]]
    /\ UNCHANGED <<lifecycleVars, cycleVars, threadVars, tableVars,
                   handleVars, stateHooks, raceVars>>

\* std::lock finds both mutexes free: its lock() and the try_lock() that
\* follows, with no step of another thread between the two
lockBoth(t) ==
    /\ atLock(t)
    /\ Cardinality(wanted(t)) = 2
    /\ \A m \in wanted(t) : lockedBy[m] = nobody
    /\ lockedBy' = [m \in Mutexes |->
                       IF m \in wanted(t) THEN t ELSE lockedBy[m]]
    /\ inCall' = [inCall EXCEPT ![t].at = "locked"]
    /\ UNCHANGED <<lifecycleVars, cycleVars, threadVars, tableVars,
                   handleVars, stateHooks, raceVars>>

\* World::createEntity<pack...>() below its scoped_lock, and its return
createEntityOfCaller(t, pack) ==
    /\ inCall[t].call = "createEntity" /\ inCall[t].at = "locked"
    /\ LET entityUID == m_NextUID
           made == makeComponentStorageInfos(systems, pack, <<>>)
           ptr == Len(heap) + 1
       IN  /\ m_NextUID' = m_NextUID + 1
           /\ heap' = Append(heap, Entity(entityUID, made.infos))
           /\ systems' = setComponentEntityEach(made.systems, made.infos, ptr)
           /\ m_NewEntities' = Append(m_NewEntities, ptr)
           /\ m_EntityCount' = m_EntityCount + 1
           /\ ghostCreate(ptr, entityUID)
    /\ unlocked(t)
    /\ UNCHANGED <<m_InitializingEntities, m_Entities, m_TeardownEntities,
                   m_DestructibleEntities, pc, destructibleEntityUIDs,
                   cycleVars, threadVars, tableVars, handleVars, stateHooks,
                   raceVars>>

\* World::destroyEntityLater(uid) below its scoped_lock, and its return
destroyEntityLaterOfCaller(t, uid) ==
    /\ inCall[t].call = "destroyEntityLater" /\ inCall[t].at = "locked"
    /\ m_DestructibleEntities' = Append(m_DestructibleEntities, uid)
    /\ ghostRequest(uid)
    /\ unlocked(t)
    /\ UNCHANGED <<m_NextUID, m_EntityCount, m_NewEntities,
                   m_InitializingEntities, m_Entities, m_TeardownEntities,
                   systems, heap, pc, destructibleEntityUIDs, cycleVars,
                   threadVars, tableVars, handleVars, stateHooks, raceVars>>

\* World::findEntity(uid) below its scoped_lock, and its return: the four
\* searches change nothing
findEntityOfCaller(t) ==
    /\ inCall[t].call = "findEntity" /\ inCall[t].at = "locked"
    /\ unlocked(t)
    /\ UNCHANGED <<lifecycleVars, cycleVars, threadVars, tableVars,
                   handleVars, stateHooks, raceVars>>

\* a step of the update thread with the locks the step takes, and their
\* release at the end of the scope
withLocksOfStep ==
    /\ held(updateThread) = wanted(updateThread)
    /\ unlocked(updateThread)
    /\ UNCHANGED <<cycleVars, threadVars, tableVars, handleVars, stateHooks,
                   raceVars>>

\* the pack the callers create their entities with (SystemTest.cpp 185)
CallerPacks == {<<TestSystem>>}

\* the call of a caller that holds its locks runs and returns
returns(t) ==
    \/ \E pack \in CallerPacks : createEntityOfCaller(t, pack)
    \/ \E uid \in 1..MaxCreated : destroyEntityLaterOfCaller(t, uid)
    \/ findEntityOfCaller(t)

\* postUpdate, once called, goes on with its next step
postUpdateGoesOn ==
    \/ processInitializingEntities /\ withLocksOfStep
    \/ processNewEntities /\ withLocksOfStep
    \/ clearTeardownEntities /\ withLocksOfStep
    \/ takeRequests /\ withLocksOfStep
    \/ processEntityDestruction /\ withLocksOfStep

InitLocks == InitWorld /\ track = "none"

NextLocks ==
    \/ \E t \in Callers : \E call \in ReentrantCalls : enters(t, call)
    \/ \E t \in Threads : scopedLock(t)
    \/ \E t \in Threads : lockFirst(t)
    \/ \E t \in Threads : tryLockSucceeds(t)
    \/ \E t \in Threads : tryLockFails(t)
    \/ \E t \in Threads : lockBoth(t)
    \/ \E t \in Callers : returns(t)
    \/ preUpdate
    \/ update
    \/ postUpdateSystems /\ withLocksOfStep
    \/ postUpdateGoesOn

\* the World, its mutexes and the threads that call it
SpecLocks == InitLocks /\ [][NextLocks]_vars

\* the threads keep running: one that is inside a call, or inside postUpdate,
\* takes its next step, and one that waits in mutex::lock gets the mutex if
\* that is free again and again (the mutexes do not starve a waiting
\* thread); a thread in std::lock that finds both mutexes free again and
\* again gets through lock() and try_lock() undisturbed at some time
SpecLocksFair ==
    /\ SpecLocks
    /\ \A t \in Threads :
          /\ SF_vars(scopedLock(t))
          /\ SF_vars(tryLockSucceeds(t))
          /\ SF_vars(lockBoth(t))
          /\ WF_vars(tryLockFails(t))
    /\ \A t \in Callers : WF_vars(returns(t))
    /\ WF_vars(postUpdateGoesOn)

\* -------------------------------------------------------------------------
\* Properties
\* -------------------------------------------------------------------------
\* how often ptr occurs in a queue
occurrences(container, ptr) ==
    Cardinality({i \in DOMAIN container : container[i] = ptr})

\* how often ptr occurs in the four queues together
occurrencesInQueues(ptr) ==
    occurrences(m_NewEntities, ptr) + occurrences(m_InitializingEntities, ptr)
        + occurrences(m_Entities, ptr) + occurrences(m_TeardownEntities, ptr)

\* the uids a lookup is tried with: 0, every assignable uid, one past them
LookupUids == 0..(MaxEntities + 1)

\* C1: the uids createEntity assigns start at 1, strictly increase in the
\* order of assignment (heap is in that order), are never 0 and are never
\* assigned twice, whatever was destroyed in between.
UidsStrictlyIncreasing ==
    /\ heap # <<>> => heap[1].m_Uid = 1
    /\ \A p \in DOMAIN heap : heap[p].m_Uid # 0
    /\ \A p, q \in DOMAIN heap :
          /\ p < q => heap[p].m_Uid < heap[q].m_Uid
          /\ p # q => heap[p].m_Uid # heap[q].m_Uid

\* C1, its case: an entity was destroyed and the entity created after it
\* took over its component slot, with another uid
UidAfterDestruction ==
    /\ Len(heap) = 2
    /\ heap[1].destructed = 1
    /\ heap[2].m_ComponentInfos[1] = heap[1].m_ComponentInfos[1]
    /\ heap[2].m_Uid = 2

\* C2 as stated: with no destroy request naming it, an entity has state none
\* until the first postUpdate call that starts after its createEntity call,
\* initializing once that call has returned, and running once the call after
\* it has returned and from then on.
LifecycleByPostUpdateStart ==
    \A p \in DOMAIN heap :
        ~ghost[p].req =>
            /\ ghost[p].posts = 0 /\ (pc = "idle" \/ p \in createdInPost)
                  => heap[p].m_State = none
            /\ ghost[p].posts = 1 /\ pc = "idle"
                  => heap[p].m_State = initializing
            /\ ghost[p].posts = 2 => heap[p].m_State = running

\* C2, amended: the postUpdate call that counts is the first one that drains
\* the new queue after the createEntity call.  For an entity created while a
\* postUpdate call is running and has not yet drained the new queue, that
\* is the running call: the entity is initializing when that call returns
\* and running when the next one has returned.  For every other entity it is
\* the first call that starts after the createEntity call.
LifecycleByDrain ==
    \A p \in DOMAIN heap :
        ~ghost[p].req =>
            IF ghost[p].born = "window"
            THEN /\ ghost[p].posts = 0 /\ p \in createdInPost
                       /\ pc \in {"processInitializingEntities",
                                  "processNewEntities"}
                       => heap[p].m_State = none
                 /\ ghost[p].posts = 0 /\ pc = "idle"
                       => heap[p].m_State = initializing
                 /\ ghost[p].posts = 1 /\ pc = "idle"
                       => heap[p].m_State = running
            ELSE /\ ghost[p].posts = 0 /\ (pc = "idle" \/ p \in createdInPost)
                       => heap[p].m_State = none
                 /\ ghost[p].posts = 1 /\ pc = "idle"
                       => heap[p].m_State = initializing
                 /\ ghost[p].posts = 2 => heap[p].m_State = running

\* C2, its case: two postUpdate calls that started after the creation of a
\* never requested entity have returned, and a third is under way
RunningAfterTwoPostUpdates ==
    \E p \in DOMAIN heap :
        /\ ~ghost[p].req
        /\ ghost[p].posts = 2
        /\ heap[p].notified = <<initializing, running>>
        /\ pc = "clearTeardownEntities"

\* C3: between completed operations findEntity(uid) returns the entity of
\* that uid exactly if one was created and is not yet destructed, in
\* whichever queue it is; entity(uid) raises exactly if findEntity(uid)
\* returns null and else refers to the same entity.
FindEntityFindsTheLiving ==
    pc = "idle" =>
        \A uid \in LookupUids :
            LET holders == {p \in DOMAIN heap :
                               heap[p].m_Uid = uid /\ heap[p].destructed = 0}
            IN  /\ findEntity(uid) # nullptr <=> holders # {}
                /\ findEntity(uid) # nullptr => findEntity(uid) \in holders
                /\ entity(uid).raised <=> findEntity(uid) = nullptr
                /\ ~entity(uid).raised => entity(uid).ref = findEntity(uid)

\* C3, its case: one entity is found in the teardown queue, the other is
\* destructed and not found
FoundInTeardownNotFoundDestructed ==
    /\ pc = "idle"
    /\ \E p, q \in DOMAIN heap :
          /\ m_TeardownEntities = <<p>>
          /\ findEntity(heap[p].m_Uid) = p
          /\ heap[q].destructed = 1
          /\ entity(heap[q].m_Uid).raised

\* C4 as stated: once one postUpdate call that started after the first
\* destroyEntityLater call naming a live entity has returned, findEntity
\* finds the entity, in state teardown; once the second has returned,
\* findEntity returns null and entity raises, from then on.
TeardownAfterOnePostUpdate ==
    \A p \in DOMAIN heap :
        ghost[p].reqWhere # "none" =>
            /\ ghost[p].reqPosts = 1 /\ pc = "idle"
                  => /\ findEntity(heap[p].m_Uid) = p
                     /\ heap[p].m_State = teardown
            /\ ghost[p].reqPosts = 2
                  => /\ findEntity(heap[p].m_Uid) = nullptr
                     /\ entity(heap[p].m_Uid).raised

\* C4, amended: the postUpdate call that counts is the one that takes the
\* request.  A request submitted while a postUpdate call is running and has
\* not yet taken the requests is taken by that call: the entity is in
\* teardown when that call returns and gone when the next one has returned.
\* A request submitted while no postUpdate call is running is taken by the
\* next call.
TeardownAfterProcessing ==
    \A p \in DOMAIN heap :
        /\ ghost[p].reqWhere = "idle" =>
              /\ ghost[p].reqPosts = 1 /\ pc = "idle"
                    => /\ findEntity(heap[p].m_Uid) = p
                       /\ heap[p].m_State = teardown
              /\ ghost[p].reqPosts = 2
                    => /\ findEntity(heap[p].m_Uid) = nullptr
                       /\ entity(heap[p].m_Uid).raised
        /\ ghost[p].reqWhere = "post" =>
              /\ ghost[p].reqPosts = 0 /\ pc = "idle"
                    => /\ findEntity(heap[p].m_Uid) = p
                       /\ heap[p].m_State = teardown
              /\ ghost[p].reqPosts = 1
                    => /\ findEntity(heap[p].m_Uid) = nullptr
                       /\ entity(heap[p].m_Uid).raised

\* C4, its case: a running entity was requested while no postUpdate call was
\* running, and the one postUpdate call since has left it findable in teardown
RequestedThenOnePostUpdate ==
    \E p \in DOMAIN heap :
        /\ ghost[p].reqWhere = "idle"
        /\ ghost[p].reqPosts = 1
        /\ pc = "idle"
        /\ heap[p].notified = <<initializing, running, teardown>>
        /\ findEntity(heap[p].m_Uid) = p

\* C5: after completed calls every entity that is created and not yet
\* destructed is in exactly one of the four queues, exactly once, a
\* destructed one is in none, and no uid is in two places.
EachLiveEntityInOneQueue ==
    pc = "idle" =>
        /\ \A p \in DOMAIN heap :
              occurrencesInQueues(p) = IF heap[p].destructed = 0 THEN 1 ELSE 0
        /\ \A uid \in LookupUids :
              Cardinality({p \in DOMAIN heap :
                              /\ heap[p].m_Uid = uid
                              /\ occurrencesInQueues(p) > 0}) <= 1
        /\ nullptr \notin Range(m_NewEntities) \cup Range(m_InitializingEntities)
                             \cup Range(m_Entities) \cup Range(m_TeardownEntities)

\* C5, its case: one entity is in the running queue and another one has just
\* been moved out of it into the teardown queue
OneRunningOneTeardown ==
    /\ pc = "idle"
    /\ Len(m_Entities) = 1
    /\ Len(m_TeardownEntities) = 1
    /\ heap[m_TeardownEntities[1]].notified = <<initializing, running, teardown>>

\* C6: every entity that has received the teardown notification has received
\* the initializing and the running notification before it.
TeardownOnlyFromRunning ==
    \A p \in DOMAIN heap :
        teardown \in Range(heap[p].notified)
            => heap[p].notified = <<initializing, running, teardown>>

\* the notifications of an entity are in strictly increasing order and its
\* state is the last of them
notifiedInOrder(e) ==
    /\ \A i, j \in DOMAIN e.notified : i < j => e.notified[i] < e.notified[j]
    /\ e.m_State = IF e.notified = <<>>
                   THEN none ELSE e.notified[Len(e.notified)]

\* C7: the uid of an entity never changes, its state never decreases, every
\* changeState call sets a state greater than the one before, and no
\* assertion of the Entity fails.
StateOnlyIncreases ==
    /\ [](\A p \in DOMAIN heap :
              ~heap[p].assertFailed /\ notifiedInOrder(heap[p]))
    /\ [][\A p \in DOMAIN heap :
              /\ heap'[p].m_Uid = heap[p].m_Uid
              /\ heap[p].m_State <= heap'[p].m_State]_vars

\* C7, its case: an entity went through every state and was destructed,
\* another one was moved to teardown out of the new queue
WentThroughEveryState ==
    \E p, q \in DOMAIN heap :
        /\ heap[p].notified = <<initializing, running, teardown>>
        /\ heap[p].destructed = 1
        /\ heap[q].notified = <<teardown>>

\* the component infos of the entities ptrs that lie in system s
ownedInfos(ptrs, s) ==
    {<<p, i>> \in ptrs \X (1..Len(m_Systems)) :
        /\ i \in DOMAIN heap[p].m_ComponentInfos
        /\ heap[p].m_ComponentInfos[i].systemPtr = s}

\* the slots of system s those infos name
ownedSlots(ptrs, s) ==
    {heap[x[1]].m_ComponentInfos[x[2]].componentUid : x \in ownedInfos(ptrs, s)}

\* C8: the step that clears the teardown queue destructs each of its
\* entities once; every slot such an entity owns is free afterwards, the
\* size of every system has dropped by one for each component owned in it
\* (destroyComponent lowers it by one per call, so it is called once per
\* owned slot), and every other slot and every other entity is as
\* before.
FinalDestructionFreesOwnedSlots ==
    [][pc = "clearTeardownEntities" /\ pc' = "takeDestructibleEntityUIDs" =>
          LET dead == Range(m_TeardownEntities)
          IN  /\ \A p \in dead :
                    heap[p].destructed = 0 /\ heap'[p].destructed = 1
              /\ \A p \in DOMAIN heap \ dead : heap'[p] = heap[p]
              /\ \A s \in SystemNames :
                    /\ Cardinality(ownedSlots(dead, s))
                           = Cardinality(ownedInfos(dead, s))
                    /\ size(systems'[s]) = size(systems[s])
                                               - Cardinality(ownedInfos(dead, s))
                    /\ size(systems'[s]) >= 0
                    /\ Len(systems'[s].m_Components)
                           = Len(systems[s].m_Components)
                    /\ \A slot \in DOMAIN systems[s].m_Components :
                          IF slot \in ownedSlots(dead, s)
                          THEN /\ findComponent(systems[s], slot) = slot
                               /\ findComponent(systems'[s], slot) = nullptr
                          ELSE systems'[s].m_Components[slot]
                                   = systems[s].m_Components[slot]]_vars

\* C8, its case: the teardown queue has just been cleared of an entity with
\* a component in each system, while another entity keeps its slot
DestructedWithTwoComponents ==
    /\ pc = "takeDestructibleEntityUIDs"
    /\ \E p, q \in DOMAIN heap :
          /\ heap[p].destructed = 1
          /\ Len(heap[p].m_ComponentInfos) = 2
          /\ heap[q].destructed = 0
          /\ heap[q].m_State = running
          /\ size(systems["A"]) = 1
          /\ size(systems["B"]) = 0
          /\ findComponent(systems["A"],
                           heap[p].m_ComponentInfos[1].componentUid) = nullptr

\* C9: however often and in whichever order uids are staged, the postUpdate
\* that takes them moves exactly the entities of the new, initializing and
\* running queues whose uid is among them to teardown, each once, and changes
\* nothing else: no other entity, no queue position of another entity, no
\* component, no count.  The staging list is empty once taken.  No entity
\* is notified of teardown twice or destructed twice.
RequestsTakenAsASet ==
    /\ [](\A p \in DOMAIN heap :
              /\ heap[p].destructed <= 1
              /\ occurrences(heap[p].notified, teardown) <= 1)
    /\ [][/\ pc = "takeDestructibleEntityUIDs" /\ pc' # pc =>
                /\ m_DestructibleEntities' = <<>>
                /\ Range(destructibleEntityUIDs') = Range(m_DestructibleEntities)
                /\ Range(lastTaken') = Range(m_DestructibleEntities)
                /\ UNCHANGED <<m_NewEntities, m_InitializingEntities,
                               m_Entities, m_TeardownEntities, heap, systems,
                               m_EntityCount, m_NextUID>>
          /\ pc = "moveDestructibleEntities" /\ pc' = "idle" =>
                LET named == {p \in liveNotTeardown :
                                 heap[p].m_Uid \in Range(lastTaken)}
                    kept(q) == q \notin named
                IN  /\ m_TeardownEntities = <<>>
                    /\ Range(m_TeardownEntities') = named
                    /\ Len(m_TeardownEntities') = Cardinality(named)
                    /\ m_Entities' = SelectSeq(m_Entities, kept)
                    /\ m_InitializingEntities'
                           = SelectSeq(m_InitializingEntities, kept)
                    /\ m_NewEntities' = SelectSeq(m_NewEntities, kept)
                    /\ \A p \in DOMAIN heap :
                          heap'[p] = IF p \in named
                                     THEN [heap[p] EXCEPT
                                              !.m_State = teardown,
                                              !.notified = Append(@, teardown)]
                                     ELSE heap[p]
                    /\ UNCHANGED <<systems, m_EntityCount, m_NextUID,
                                   m_DestructibleEntities>>]_vars

\* C9, its case: the postUpdate call that has just returned took a list that
\* named a running entity twice, and the entity is in the teardown queue once
DuplicateRequestsTaken ==
    /\ pc = "idle"
    /\ \E i, j \in DOMAIN lastTaken :
          /\ i < j
          /\ lastTaken[i] = lastTaken[j]
          /\ \E p \in DOMAIN heap :
                /\ heap[p].m_Uid = lastTaken[i]
                /\ m_TeardownEntities = <<p>>
                /\ heap[p].notified = <<initializing, running, teardown>>

\* C10: a step that stages a request appends the uid to the staging list
\* and changes nothing else: no entity, no queue, no component slot, not
\* entityCount(), not the result of findEntity for any uid.  Until the next
\* postUpdate call starts, no call changes an existing entity, its place in
\* its queue, a component slot in use or what findEntity returns for it.
RequestIsOnlyStaged ==
    [][/\ Len(m_DestructibleEntities') = Len(m_DestructibleEntities) + 1 =>
             /\ SubSeq(m_DestructibleEntities', 1, Len(m_DestructibleEntities))
                    = m_DestructibleEntities
             /\ UNCHANGED <<heap, m_NewEntities, m_InitializingEntities,
                            m_Entities, m_TeardownEntities, systems,
                            m_NextUID>>
             /\ entityCount' = entityCount
             /\ \A uid \in LookupUids : findEntity(uid)' = findEntity(uid)
       /\ pc = "idle" /\ pc' = "idle" =>
             /\ \A p \in DOMAIN heap :
                   /\ heap'[p] = heap[p]
                   /\ findEntity(heap[p].m_Uid)' = findEntity(heap[p].m_Uid)
             /\ SubSeq(m_NewEntities', 1, Len(m_NewEntities)) = m_NewEntities
             /\ UNCHANGED <<m_InitializingEntities, m_Entities,
                            m_TeardownEntities>>
             /\ \A s \in SystemNames :
                   \A slot \in DOMAIN systems[s].m_Components :
                       systems[s].m_Components[slot].has
                           => systems'[s].m_Components[slot]
                                  = systems[s].m_Components[slot]]_vars

\* C10, its case: a request naming a running entity is staged, and the entity
\* is running, counted and found as before
RequestStagedEntityRunning ==
    /\ pc = "idle"
    /\ Len(heap) = 1
    /\ m_DestructibleEntities = <<1>>
    /\ heap[1].m_State = running
    /\ findEntity(1) = 1
    /\ m_Entities = <<1>>
    /\ entityCount = 1
    /\ hasComponent(systems["A"], heap[1].m_ComponentInfos[1].componentUid)

\* what the TestSystem has added to a component that was there for the first
\* n calls of a behaviour: 1, 2 and 4 in every cycle
addedBy(n) ==
    7 * (n \div 3) + (CASE n % 3 = 0 -> 0 [] n % 3 = 1 -> 1 [] n % 3 = 2 -> 3)

\* the TestComponent of the entity at ptr: the payload of the slot its
\* component info names
testComponentOf(ptr) ==
    LET infos == heap[ptr].m_ComponentInfos
    IN  data[infos[findComponentInfo(infos, TestSystem)].componentUid]

\* C11: The hooks the World drives act on the component of every entity that
\* was created and is not yet destroyed, whatever its state: the counter of
\* a TestComponent is what preUpdate (1), update (2) and postUpdate (4) have
\* added in the calls since the entity's creation.  For an entity created
\* at the start of a cycle it is 1, 3 and 7 after the three calls of that
\* cycle; it is 14 after a second cycle that processed its destroy request,
\* the entity then being in teardown and still found; and after one more
\* cycle findEntity(uid) returns null.
HooksActOnEveryLiveEntity ==
    \A p \in 1..Len(heap) :
        /\ heap[p].destructed = 0 =>
               /\ testComponentOf(p)
                      = addedBy(hookCalls) - addedBy(bornAt[p])
               /\ (bornAt[p] = 3 * cycles /\ Len(hookLog) = Len(m_Systems))
                      => testComponentOf(p) = 1
               /\ (bornAt[p] = 3 * cycles
                      /\ Len(hookLog) = 2 * Len(m_Systems))
                      => testComponentOf(p) = 3
               /\ bornAt[p] = 3 * (cycles - 1) /\ pc = "idle"
                      /\ hookLog = <<>>
                      => testComponentOf(p) = 7
        /\ (pc = "idle" /\ tornAt[p] # 0 /\ cycles = tornAt[p]) =>
               /\ heap[p].destructed = 0
               /\ heap[p].m_State = teardown
               /\ findEntity(heap[p].m_Uid) = p
               /\ (bornAt[p] = 3 * (cycles - 2) /\ hookLog = <<>>)
                      => testComponentOf(p) = 14
        /\ (pc = "idle" /\ tornAt[p] # 0 /\ cycles > tornAt[p]) =>
               /\ heap[p].destructed = 1
               /\ findEntity(heap[p].m_Uid) = nullptr

\* an entity created before the first cycle is in teardown after the second,
\* its counter at 14, while an entity one cycle younger is initializing
TeardownEntityCountedTo14 ==
    /\ pc = "idle"
    /\ cycles = 2
    /\ hookLog = <<>>
    /\ Len(heap) = 2
    /\ bornAt[1] = 0
    /\ tornAt[1] = 2
    /\ heap[1].m_State = teardown
    /\ testComponentOf(1) = 14
    /\ heap[2].m_State = initializing
    /\ testComponentOf(2) = 7

\* the hooks of one call: every registered system once, in registration order
hooksOfCall(hook) == [i \in 1..Len(m_Systems) |-> <<m_Systems[i], hook>>]

\* the hooks of one whole cycle
hooksOfCycle ==
    hooksOfCall("preUpdate") \o hooksOfCall("update")
        \o hooksOfCall("postUpdate")

\* C12: Each call of World::preUpdate, update and postUpdate invokes the
\* matching hook of every registered system exactly once, in registration
\* order; within a cycle every system's preUpdate is over before any
\* system's update starts, and every update before any postUpdate: what was
\* invoked in the running cycle is the hooks of the calls made so far, call
\* after call.
HooksOncePerCallInRegistrationOrder ==
    /\ Len(hookLog) \in {0, Len(m_Systems), 2 * Len(m_Systems),
                          3 * Len(m_Systems)}
    /\ hookLog = SubSeq(hooksOfCycle, 1, Len(hookLog))
    /\ \A i, j \in 1..Len(hookLog) :
          /\ (hookLog[i][2] = "preUpdate" /\ hookLog[j][2] = "update")
                 => i < j
          /\ (hookLog[i][2] = "update" /\ hookLog[j][2] = "postUpdate")
                 => i < j

\* the postUpdate hooks of a cycle have run, with an entity to act on
AllHooksOfACycleInvoked ==
    /\ Len(hookLog) = 3 * Len(m_Systems)
    /\ hookLog[Len(hookLog)] = <<m_Systems[Len(m_Systems)], "postUpdate">>
    /\ Len(heap) >= 1
    /\ cycles = 1

\* the part of a cycle up to the end of the systems' postUpdate hooks, and
\* on to the point where processEntityDestruction begins
upToEntityDestruction ==
    pc \in {"idle", "processInitializingEntities", "processNewEntities",
            "clearTeardownEntities"}

\* C13: After an entity was notified of teardown, the entity object and all
\* of its component slots stay live during the whole of the following
\* cycle's preUpdate, update and postUpdate hooks: the entity is found by
\* its uid, each slot it owns is occupied and still names it (it was not
\* recycled), and the hooks go on acting on its component.
TeardownEntityLiveThroughNextCycle ==
    \A p \in 1..Len(heap) :
        (tornAt[p] # 0 /\ cycles = tornAt[p] /\ upToEntityDestruction) =>
            /\ heap[p].destructed = 0
            /\ heap[p].m_State = teardown
            /\ findEntity(heap[p].m_Uid) = p
            /\ \A i \in 1..Len(heap[p].m_ComponentInfos) :
                  LET info == heap[p].m_ComponentInfos[i]
                  IN  /\ hasComponent(systems[info.systemPtr],
                                      info.componentUid)
                      /\ systems[info.systemPtr]
                             .m_Components[info.componentUid].entity = p
            /\ testComponentOf(p) = addedBy(hookCalls) - addedBy(bornAt[p])

\* the hooks of the cycle after the teardown notification have all run, the
\* entity with its two components is still there, and a younger entity too
TeardownEntityAfterNextCyclesHooks ==
    /\ pc = "clearTeardownEntities"
    /\ Len(hookLog) = 3 * Len(m_Systems)
    /\ Len(heap) = 2
    /\ tornAt[1] = cycles
    /\ Len(heap[1].m_ComponentInfos) = 2
    /\ heap[1].destructed = 0
    /\ m_TeardownEntities = <<1>>

\* the postUpdate hooks of the cycle after the teardown notification of the
\* entity at p have run
nextPostUpdateHooksRan(p) ==
    /\ tornAt[p] # 0
    /\ \/ cycles > tornAt[p]
       \/ cycles = tornAt[p] /\ Len(hookLog) = 3 * Len(m_Systems)

\* C14 as stated: the entities one postUpdate placed in the teardown queue
\* are destructed at the start of the next postUpdate, before any system's
\* postUpdate hook of that cycle runs.
DestructedBeforeNextPostUpdateHooks ==
    \A p \in 1..Len(heap) :
        nextPostUpdateHooksRan(p) => heap[p].destructed = 1

\* C14, amended: the entities one postUpdate placed in the teardown queue
\* are destructed by the next postUpdate when its processEntityDestruction
\* begins, after every system's postUpdate hook of that cycle and after the
\* two promotions; those hooks still act on the components of these
\* entities, whose slots are freed only then.  No other entity is
\* destructed.
DestructedAfterNextPostUpdateHooks ==
    \A p \in 1..Len(heap) :
        LET infos == heap[p].m_ComponentInfos
            slot == infos[findComponentInfo(infos, TestSystem)].componentUid
            cleared ==
                \/ cycles > tornAt[p]
                \/ /\ cycles = tornAt[p]
                   /\ pc \in {"takeDestructibleEntityUIDs",
                               "moveDestructibleEntities"}
        IN  /\ heap[p].destructed = IF tornAt[p] # 0 /\ cleared THEN 1 ELSE 0
            /\ (tornAt[p] = cycles /\ heap[p].destructed = 1) =>
                   /\ ~hasComponent(systems[TestSystem], slot)
                   /\ data[slot] = addedBy(3 * (tornAt[p] + 1))
                                       - addedBy(bornAt[p])
            /\ (tornAt[p] = cycles /\ upToEntityDestruction
                   /\ tornAt[p] # 0) =>
                   hasComponent(systems[TestSystem], slot)

\* an entity created before the first cycle and in teardown since the second
\* has just been destructed in the third, its counter at 21
DestructedWithCounterAt21 ==
    /\ pc = "takeDestructibleEntityUIDs"
    /\ cycles = 2
    /\ Len(heap) >= 1
    /\ bornAt[1] = 0
    /\ tornAt[1] = 2
    /\ heap[1].destructed = 1
    /\ data[1] = 21

\* C15: Each per-system component table is protected by exactly one lock: in
\* no interleaving of createEntity on another thread with the update
\* thread's cycle do two of createComponent, destroyComponent (from an
\* entity destructor in postUpdate) and forEachComponent (from a system
\* hook) execute on the same table at the same time.
NoTwoTableOperationsAtOnce == overlap = {}

\* C16: No lock of the World is held by the update thread while a user
\* callback runs (the systems' preUpdate, update and postUpdate hooks, the
\* entity state-change hook for initializing, running and teardown), so
\* that a callback calling createEntity, destroyEntityLater or findEntity
\* never waits for a lock its own thread holds.
NoLockHeldInCallback ==
    /\ callback.locks = {}
    /\ \A call \in ReentrantCalls : locksOf(call) \cap callback.locks = {}

\* the free slots of a table
freeSlots(system) ==
    {i \in 1..Len(system.m_Components) : ~system.m_Components[i].has}

\* C17: createComponent returns the lowest-numbered free slot if one exists
\* and otherwise capacity + 1; the id is never 0.  After create, destroy of
\* that id, create again, the second create returns the same slot id;
\* findComponent(id) is null in between and afterwards yields the freshly
\* constructed payload, never the old one.
CreateTakesLowestFreeSlot ==
    LET made == createComponent(theTable)
        first == made.uid
        payloads1 == [emplace(data, first) EXCEPT ![first] = 1]
        destroyed == destroyComponent(made.system, first)
        again == createComponent(destroyed)
        payloads2 == emplace(payloads1, again.uid)
    IN  /\ first # 0
        /\ first = IF freeSlots(theTable) # {}
                   THEN Min(freeSlots(theTable))
                   ELSE Len(theTable.m_Components) + 1
        /\ findComponent(made.system, first) = first
        /\ findComponent(destroyed, first) = nullptr
        /\ again.uid = first
        /\ findComponent(again.system, first) = first
        /\ payloads1[first] = 1 /\ payloads2[first] = 0
        /\ called.op = "createComponent" =>
               /\ called.result # 0
               /\ called.result = IF freeSlots(called.before) # {}
                                  THEN Min(freeSlots(called.before))
                                  ELSE Len(called.before.m_Components) + 1
               /\ findComponent(theTable, called.result) = called.result
               /\ data[called.result] = 0

\* createComponent has just recycled slot 2, which lies between two occupied
\* slots and held a payload that was written to; the new payload is fresh
RecycledSlotHoldsFreshPayload ==
    /\ called.op = "createComponent"
    /\ called.result = 2
    /\ Len(called.before.m_Components) = 3
    /\ freeSlots(called.before) = {2}
    /\ called.payloads[2] = 1
    /\ data[2] = 0
    /\ findComponent(theTable, 2) = 2

\* C18: destroyComponent on a slot id that is within capacity but already
\* free is a no-op; size() is decremented only when a slot goes from
\* occupied to free, so that destroying the same slot twice leaves size()
\* unchanged and size() never underflows.
DestroyOfFreeSlotIsNoOp ==
    /\ size(theTable) >= 0
    /\ (called.op = "destroyComponent"
           /\ called.uid \in freeSlots(called.before)) =>
           theTable = called.before
    /\ (called.op = "destroyComponent"
           /\ size(theTable) # size(called.before)) =>
           /\ hasComponent(called.before, called.uid)
           /\ ~hasComponent(theTable, called.uid)

\* C19: For every slot id (0, ids above capacity and the maximum Uid
\* included) and every table state, hasComponent(id), findComponent(id)
\* being non-null and component(id) not raising all hold exactly when
\* 1 <= id <= capacity and the slot is occupied; findComponent and
\* hasComponent never raise, component(id) raises exactly otherwise.
LookupsAgree ==
    /\ \A id \in TableIds :
          LET occupied == id \in (1..Len(theTable.m_Components))
                                    \ freeSlots(theTable)
          IN  /\ hasComponent(theTable, id) <=> occupied
              /\ findComponent(theTable, id) # nullptr <=> occupied
              /\ ~component(theTable, id).raised <=> occupied
              /\ occupied =>
                     /\ findComponent(theTable, id) = id
                     /\ component(theTable, id).ref = id
    /\ called.op = "component" =>
          /\ called.raised <=> ~hasComponent(called.before, called.uid)
          /\ called.raised <=> called.result = nullptr

\* component(the maximum Uid) has raised on a table of three slots, one of
\* them occupied, one freed
LookupOfMaxUidRaised ==
    /\ called.op = "component"
    /\ called.uid = UidMax
    /\ called.raised
    /\ called.result = nullptr
    /\ Len(theTable.m_Components) = 3
    /\ freeSlots(theTable) = {1, 3}
    /\ ~component(theTable, 2).raised
    /\ component(theTable, 0).raised
    /\ component(theTable, 4).raised

\* the entity e, made with the component types of pack and living at ptr,
\* answers for every type as the pack says; sys are the tables
answersForPack(e, ptr, pack, sys) ==
    /\ Len(e.m_ComponentInfos) = Len(pack)
    /\ \A T \in ComponentTypes :
          LET found == Entity_findComponent(e, T, sys)
              got == Entity_component(e, T, sys)
          IN  IF T \in Range(pack)
              THEN /\ \E i \in 1..Len(pack) :
                         /\ e.m_ComponentInfos[i].systemPtr = T
                         /\ \A j \in 1..Len(pack) :
                               e.m_ComponentInfos[j].systemPtr = T => j = i
                         /\ got.ref = e.m_ComponentInfos[i].componentUid
                         /\ sys[T].m_Components[got.ref]
                                = [has |-> TRUE, entity |-> ptr]
                   /\ Entity_hasComponent(e, T)
                   /\ found # nullptr
                   /\ ~got.raised
              ELSE /\ \A i \in 1..Len(pack) :
                         e.m_ComponentInfos[i].systemPtr # T
                   /\ ~Entity_hasComponent(e, T)
                   /\ found = nullptr
                   /\ got.raised

\* the component types of the infos an entity holds, in their order
typesHeld(e) ==
    [i \in 1..Len(e.m_ComponentInfos) |-> e.m_ComponentInfos[i].systemPtr]

\* C20: An entity created with a set of component types holds exactly one
\* component reference per requested type: for each of them hasComponent<T>
\* is true and component<T>() returns the payload in the slot allocated for
\* this entity; for any type not requested hasComponent<T> is false,
\* findComponent<T> is null and component<T>() raises EntityError.  This
\* holds for the entity createEntity makes with any pack wherever it can
\* be called, and for every entity made earlier as long as it is not
\* destructed.
EntityAnswersForItsComponentTypes ==
    /\ (yieldPoint /\ m_NextUID <= MaxEntities) =>
          \A pack \in ComponentPacks :
              LET made == makeComponentStorageInfos(systems, pack, <<>>)
                  ptr == Len(heap) + 1
              IN  answersForPack(
                      Entity(m_NextUID, made.infos), ptr, pack,
                      setComponentEntityEach(made.systems, made.infos, ptr))
    /\ \A p \in 1..Len(heap) :
          heap[p].destructed = 0 =>
              /\ typesHeld(heap[p]) \in ComponentPacks
              /\ answersForPack(heap[p], p, typesHeld(heap[p]), systems)

\* an entity created with one type is running and raises for the other two,
\* one created with two types is in teardown and still answers for both
EntitiesOfBothPacksAnswer ==
    /\ Len(heap) = 2
    /\ heap[1].m_State = running
    /\ heap[2].m_State = teardown
    /\ heap[2].destructed = 0
    /\ answersForPack(heap[1], 1, <<"A">>, systems)
    /\ Entity_component(heap[1], "B", systems).raised
    /\ Entity_component(heap[1], "C", systems).raised
    /\ answersForPack(heap[2], 2, <<"A", "B">>, systems)
    /\ Entity_component(heap[2], "B", systems).ref = 1

\* C21: Over every sequence of createComponent and destroyComponent calls on
\* one system the capacity (the slots ever allocated) never decreases and a
\* destroy leaves it as it was, and the active count equals the number of
\* occupied slots: one more after each create, one less after each destroy
\* of an occupied slot.
CountIsTheNumberOfOccupiedSlots ==
    /\ Len(theTable.m_Components) >= Len(called.before.m_Components)
    /\ called.op = "destroyComponent" =>
           Len(theTable.m_Components) = Len(called.before.m_Components)
    /\ size(theTable) = Cardinality(occupiedSlots(theTable))
    /\ called.op = "createComponent" =>
           size(theTable) = size(called.before) + 1
    /\ (called.op = "destroyComponent"
           /\ called.uid \in occupiedSlots(called.before)) =>
           size(theTable) = size(called.before) - 1

\* the handles in their lifetime whose m_UID is uid
owners(uid) ==
    {h \in HandleObjects : handles[h].alive /\ handles[h].m_UID = uid}

\* every handle is empty (uid 0, no system) or is the one owner of an
\* occupied slot of the system
EachComponentHasOneOwner ==
    \A h \in HandleObjects :
        handles[h].alive =>
            IF isEmpty(handles[h])
            THEN handles[h].m_System = nullptr
            ELSE /\ handles[h].m_System = addressOfTestSystem
                 /\ getComponentPtr(testSystem, handles[h].m_UID) # nullptr
                 /\ owners(handles[h].m_UID) = {h}

\* after the last operation its source handle is empty and its target holds
\* what the source held
SourceEmptyTargetOwns ==
    /\ handles[handled.other].m_UID = 0
    /\ handles[handled.other].m_System = nullptr
    /\ handles[handled.this].m_UID = handled.before.handles[handled.other].m_UID
    /\ handles[handled.this].m_System
           = handled.before.handles[handled.other].m_System

\* release() or the destructor of an empty handle leaves the system alone;
\* release() of an owner frees its slot, and only that one, and empties it
ReleaseFreesOnce ==
    LET was == handled.before.handles[handled.this]
    IN  /\ (handled.op \in {"release", "destruct"} /\ isEmpty(was)) =>
               testSystem = handled.before.testSystem
        /\ (handled.op = "release" /\ ~isEmpty(was)) =>
               /\ componentCount(testSystem)
                      = componentCount(handled.before.testSystem) - 1
               /\ Len(testSystem) = Len(handled.before.testSystem)
               /\ testSystem = [handled.before.testSystem
                                    EXCEPT ![was.m_UID] = noComponentInfo]
               /\ handles[handled.this] = defaultHandle

\* C22 as stated: At most one ComponentHandle owns a given component.  After
\* a move construction or a move assignment the source handle is empty
\* (uid 0, no system) and the target owns the component; release() or the
\* destruction of an empty handle changes nothing in the system; release()
\* of the owning handle frees the component once (the component count drops
\* by one, the capacity stays) and leaves the handle empty.
MovedFromHandleIsEmpty ==
    /\ EachComponentHasOneOwner
    /\ handled.op \in {"moveConstruct", "moveAssign"} => SourceEmptyTargetOwns
    /\ ReleaseFreesOnce

\* C22: At most one ComponentHandle owns a given component.  After a move
\* construction, and after a move assignment to an empty handle, the source
\* handle is empty (uid 0, no system) and the target owns the component; a
\* move assignment to a handle that owns a component exchanges the two, so
\* that the source then owns what the target owned.  release() or the
\* destruction of an empty handle changes nothing in the system; release()
\* of the owning handle frees the component once (the component count drops
\* by one, the capacity stays) and leaves the handle empty.
MoveAssignmentExchangesOwners ==
    /\ EachComponentHasOneOwner
    /\ handled.op = "moveConstruct" => SourceEmptyTargetOwns
    /\ (handled.op = "moveAssign"
           /\ isEmpty(handled.before.handles[handled.this])) =>
           SourceEmptyTargetOwns
    /\ handled.op = "moveAssign" =>
           /\ handles[handled.this] = handled.before.handles[handled.other]
           /\ handles[handled.other] = handled.before.handles[handled.this]
    /\ ReleaseFreesOnce

\* a handle that owns a component was move assigned from another owner: the
\* source now owns the component the target owned, and both are in the system
MoveAssignedBetweenTwoOwners ==
    /\ handled.op = "moveAssign"
    /\ ~isEmpty(handled.before.handles[handled.this])
    /\ ~isEmpty(handled.before.handles[handled.other])
    /\ handles[handled.other].m_UID
           = handled.before.handles[handled.this].m_UID
    /\ handles[handled.this].m_UID
           = handled.before.handles[handled.other].m_UID
    /\ componentCount(testSystem) = 2

\* the order in which World::postUpdate goes through its steps
postUpdateStepOrder ==
    {<<"idle", "processInitializingEntities">>,
     <<"processInitializingEntities", "processNewEntities">>,
     <<"processNewEntities", "clearTeardownEntities">>,
     <<"clearTeardownEntities", "takeDestructibleEntityUIDs">>,
     <<"takeDestructibleEntityUIDs", "moveDestructibleEntities">>,
     <<"takeDestructibleEntityUIDs", "idle">>,
     <<"moveDestructibleEntities", "idle">>}

\* the cycles that were complete when the entity was created
cyclesBefore(p) == bornAt[p] \div 3

\* C23: Within one postUpdate the steps run in a fixed order: (a) the
\* postUpdate hooks of the systems, (b) the promotion of the initializing
\* entities to running with its notifications, (c) the drain of the new
\* queue into initializing with its notifications, (d) the destroy requests
\* with their teardown notifications.  No entity is promoted twice in one
\* postUpdate: the postUpdate that makes it initializing does not make it
\* running.
PostUpdateStepsInOrder ==
    [][/\ pc' # pc => <<pc, pc'>> \in postUpdateStepOrder
       /\ (pc = "idle" /\ pc' # "idle") =>
              /\ hookLog' = hookLog \o hooksOfCall("postUpdate")
              /\ heap' = heap
       /\ \A p \in DOMAIN heap :
              heap'[p].notified # heap[p].notified =>
                  /\ Len(hookLog) = 3 * Len(m_Systems)
                  /\ \/ /\ pc = "processInitializingEntities"
                        /\ heap[p].m_State = initializing
                        /\ heap'[p].notified
                               = Append(heap[p].notified, running)
                     \/ /\ pc = "processNewEntities"
                        /\ heap[p].m_State = none
                        /\ heap'[p].notified
                               = Append(heap[p].notified, initializing)
                     \/ /\ pc = "moveDestructibleEntities"
                        /\ heap'[p].notified
                               = Append(heap[p].notified, teardown)
       /\ \A p \in DOMAIN heap' :
              /\ initializing \in Range(heap'[p].notified) =>
                     \/ cycles' > cyclesBefore(p)
                     \/ pc' \in {"clearTeardownEntities",
                                 "takeDestructibleEntityUIDs",
                                 "moveDestructibleEntities"}
              /\ running \in Range(heap'[p].notified) =>
                     \/ cycles' > cyclesBefore(p) + 1
                     \/ /\ cycles' = cyclesBefore(p) + 1
                        /\ pc' \notin {"idle", "processInitializingEntities"}
      ]_vars

\* one postUpdate has promoted the first entity to running, drained the
\* second into initializing and then moved the first to teardown
AllFourStepsActedInOnePostUpdate ==
    /\ pc = "idle"
    /\ cycles = 2
    /\ hookLog = <<>>
    /\ Len(heap) = 2
    /\ cyclesBefore(1) = 0
    /\ cyclesBefore(2) = 1
    /\ heap[1].notified = <<initializing, running, teardown>>
    /\ tornAt[1] = 2
    /\ heap[2].notified = <<initializing>>

\* the entities that are constructed and not yet destructed
liveEntities == {p \in DOMAIN heap : heap[p].destructed = 0}

\* the slot a component info addresses
slotOf(sys, info) == sys[info.systemPtr].m_Components[info.componentUid]

\* C24: The entity back-reference of every component slot is bound exactly
\* once, during the construction of its entity and before the entity's first
\* state notification.  At every state-change notification the addressed
\* slot is occupied and its back-reference is the entity whose state
\* changed, so that the assertions of SystemBase::entityStateChanged and
\* setComponentEntity never fail.
BackReferenceBoundOnceAtConstruction ==
    /\ [](\A p \in DOMAIN heap : ~heap[p].assertFailed)
    /\ [](\A p \in liveEntities :
              \A i \in 1..Len(heap[p].m_ComponentInfos) :
                  LET info == heap[p].m_ComponentInfos[i]
                  IN  /\ isValid(info)
                      /\ hasComponent(systems[info.systemPtr],
                                      info.componentUid)
                      /\ slotOf(systems, info).entity = p)
    /\ [][\A s \in SystemNames :
              \A uid \in 1..Len(systems'[s].m_Components) :
                  LET now == systems'[s].m_Components[uid]
                      before == IF uid <= Len(systems[s].m_Components)
                                THEN systems[s].m_Components[uid]
                                ELSE nullopt
                  IN  (now.has /\ now.entity # before.entity) =>
                          /\ ~before.has
                          /\ Len(heap') = Len(heap) + 1
                          /\ now.entity = Len(heap')
                          /\ heap'[now.entity].notified = <<>>
                          /\ \E i \in 1..Len(heap'[now.entity].m_ComponentInfos) :
                                heap'[now.entity].m_ComponentInfos[i]
                                    = [systemPtr |-> s, componentUid |-> uid]
      ]_vars

\* the slot the first entity had is bound to the second entity, which was
\* notified of its state with it
RecycledSlotBoundToSecondEntity ==
    /\ Len(heap) = 2
    /\ heap[1].destructed = 1
    /\ heap[2].m_ComponentInfos[1] = [systemPtr |-> "A", componentUid |-> 1]
    /\ systems["A"].m_Components[1] = [has |-> TRUE, entity |-> 2]
    /\ heap[2].notified = <<initializing>>
    /\ ~heap[2].assertFailed

\* the calls of the state-change hook made for the component of one info of
\* the entity p with the entity in the given state
hooksFor(p, info, state) ==
    {k \in 1..Len(stateHooks) :
        stateHooks[k] = [system |-> info.systemPtr,
                         component |-> info.componentUid,
                         entity |-> p, state |-> state]}

\* the state-change hook calls a heap of entities accounts for: one for each
\* notification of an entity and each of its components
hooksDue(h) ==
    IF h = <<>>
    THEN 0
    ELSE LET sum[n \in 0..Len(h)] ==
                 IF n = 0
                 THEN 0
                 ELSE sum[n - 1]
                          + Len(h[n].notified) * Len(h[n].m_ComponentInfos)
         IN  sum[Len(h)]

\* C25: Each state transition of an entity invokes the state-change hook of
\* the owning system exactly once for each component the entity owns, with
\* that component and that entity, after the state field of the entity holds
\* the new state.  Over the lifetime of an entity each of its components is
\* notified at most once per state value, and never after the component was
\* destroyed.
HookOncePerComponentAndTransition ==
    /\ [](/\ \A p \in DOMAIN heap :
                 \A i \in 1..Len(heap[p].m_ComponentInfos) :
                     \A state \in {initializing, running, teardown} :
                         Cardinality(hooksFor(p, heap[p].m_ComponentInfos[i],
                                              state))
                             = IF state \in Range(heap[p].notified)
                               THEN 1 ELSE 0
          /\ Len(stateHooks) = hooksDue(heap))
    /\ [][\A k \in (Len(stateHooks) + 1)..Len(stateHooks') :
              LET call == stateHooks'[k]
              IN  /\ call.entity \in DOMAIN heap
                  /\ heap[call.entity].destructed = 0
                  /\ heap'[call.entity].destructed = 0
                  /\ heap[call.entity].m_State < call.state
                  /\ heap'[call.entity].m_State = call.state
                  /\ hasComponent(systems'[call.system], call.component)
                  /\ systems'[call.system].m_Components[call.component].entity
                         = call.entity
      ]_vars

\* an entity with two components went through its three states: the hook
\* was called six times for it, each time with the state just set
SixHookCallsForTwoComponents ==
    /\ Len(heap) >= 1
    /\ Len(heap[1].m_ComponentInfos) = 2
    /\ heap[1].notified = <<initializing, running, teardown>>
    /\ Cardinality({k \in 1..Len(stateHooks) : stateHooks[k].entity = 1}) = 6
    /\ \A k \in 1..Len(stateHooks) :
           stateHooks[k].entity = 1 =>
               stateHooks[k].state = ((k - 1) \div 2) + 1

\* C26: When createEntity runs on another thread while the update thread is
\* in preUpdate, update or postUpdate, no system hook that iterates with
\* forEachComponent visits an occupied slot whose entity back-reference is
\* still unset, so that the assertion of forEachComponent never fails.
HooksVisitBoundSlotsOnly == unbound = {}

\* C27: findEntity(uid), called by another thread while a postUpdate is in
\* progress, does not return null for an entity whose createEntity had
\* returned before the call and that is not destructed: whenever findEntity
\* can acquire its locks, every such entity is in one of the four queues it
\* searches, also while the new queue is drained into the initializing one.
FindEntityFindsWhileDrained ==
    /\ (foundEntity.uid # 0 /\ foundEntity.live # nullptr) =>
           foundEntity.result = foundEntity.live
    /\ m_NewEntityMxFree =>
           \A p \in DOMAIN heap :
               heap[p].destructed = 0 =>
                   p \in Range(m_Entities) \cup Range(m_InitializingEntities)
                             \cup Range(m_NewEntities)
                             \cup Range(m_TeardownEntities)

\* the entities of the new, initializing and running queues that a taken
\* request names
requestedLive ==
    {p \in liveNotTeardown : heap[p].m_Uid \in Range(destructibleEntityUIDs)}

EachEntityBecomesRunning ==
    \A p \in 1..MaxEntities :
        [](Len(heap) >= p =>
               <>(Len(heap) >= p /\ heap[p].m_State \in {running, teardown}))

\* C29: The entities whose createEntity call completed between two
\* consecutive drains of the new queue form one cohort, whichever thread
\* created them: the drain makes all of them initializing in one postUpdate,
\* and the next postUpdate makes all of them running that were not moved to
\* teardown.  An entity created after the drain of the postUpdate in
\* progress waits in the new queue for the next drain, and while postUpdate
\* keeps being called it does become initializing and running.
CohortsByDrain ==
    /\ [][/\ Len(heap') # Len(heap) =>
                 /\ m_NewEntities' = Append(m_NewEntities, Len(heap'))
                 /\ heap'[Len(heap')].m_State = none
          /\ (pc = "processNewEntities" /\ pc' # pc) =>
                 /\ m_InitializingEntities = <<>>
                 /\ m_InitializingEntities' = m_NewEntities
                 /\ m_NewEntities' = <<>>
                 /\ \A p \in Range(m_NewEntities) :
                        heap'[p].notified = <<initializing>>
          /\ (pc = "processInitializingEntities" /\ pc' # pc) =>
                 /\ m_InitializingEntities' = <<>>
                 /\ \A p \in Range(m_InitializingEntities) :
                        /\ p \in Range(m_Entities')
                        /\ heap'[p].notified = <<initializing, running>>
          /\ ~(pc = "processNewEntities" /\ pc' # pc) =>
                 \A p \in Range(m_NewEntities) :
                     \/ p \in Range(m_NewEntities') /\ heap'[p].m_State = none
                     \/ /\ pc = "moveDestructibleEntities"
                        /\ p \in requestedLive
                        /\ heap'[p].m_State = teardown
          /\ ~(pc = "processInitializingEntities" /\ pc' # pc) =>
                 \A p \in Range(m_InitializingEntities) :
                     \/ /\ p \in Range(m_InitializingEntities')
                        /\ heap'[p].m_State = initializing
                     \/ /\ pc = "moveDestructibleEntities"
                        /\ p \in requestedLive
                        /\ heap'[p].m_State = teardown
         ]_vars
    /\ EachEntityBecomesRunning

\* one cohort of two entities was promoted to running by one postUpdate,
\* while the other thread was not inside createEntity
CohortOfTwoMadeRunning ==
    /\ pc = "processNewEntities"
    /\ callback.kind = "running"
    /\ m_Entities = <<1, 2>>
    /\ heap[1].notified = <<initializing, running>>
    /\ heap[2].notified = <<initializing, running>>

\* C30: If the creator passed to createComponent throws, the table is as it
\* was: no slot became occupied, the capacity did not grow and the count was
\* not incremented; and the createComponent call that follows returns the id
\* the failed call would have returned.  This holds where a free slot is
\* recycled as well as where a slot is appended.
ThrowingCreatorLeavesTable ==
    /\ [](called.op = "creatorThrew" =>
              /\ theTable = called.before
              /\ occupiedSlots(theTable) = occupiedSlots(called.before)
              /\ Len(theTable.m_Components)
                     = Len(called.before.m_Components)
              /\ size(theTable) = size(called.before)
              /\ data = called.payloads
              /\ called.uid = IF freeSlots(theTable) # {}
                              THEN Min(freeSlots(theTable))
                              ELSE Len(theTable.m_Components) + 1)
    /\ [][(called.op = "creatorThrew" /\ called'.op = "createComponent") =>
              /\ called'.result = called.uid
              /\ called'.before = called.before
      ]_vars

\* the creator threw where slot 1 of two was free to be recycled
CreatorThrewOnRecyclePath ==
    /\ called.op = "creatorThrew"
    /\ called.raised
    /\ Len(theTable.m_Components) = 2
    /\ freeSlots(theTable) = {1}
    /\ called.uid = 1
    /\ size(theTable) = 1

\* -------------------------------------------------------------------------
\* C31: destroyComponent with an id that is out of range, 0 or above the
\* capacity, is a no-op: it uses no index on m_Components, every slot is as
\* it was before the call and the active count is unchanged.
\* -------------------------------------------------------------------------
outOfRangeDestroyed ==
    \/ called.op = "destroyOutOfRange"
    \/ /\ called.op = "destroyComponent"
       /\ called.uid > Len(called.before.m_Components)

DestroyOutOfRangeIsNoOp ==
    outOfRangeDestroyed =>
        /\ called.op = "destroyOutOfRange" => called.result = 0
        /\ theTable.m_Components = called.before.m_Components
        /\ size(theTable) = size(called.before)

\* -------------------------------------------------------------------------
\* C32: a createEntity that raises SystemError for an unregistered component
\* type leaves the world as it was: no entity is added to a queue, the
\* entity count is unchanged and no slot created for the earlier types of the
\* call stays occupied in any system.
\* -------------------------------------------------------------------------
FailedCreateEntityLeavesWorld ==
    [][(\E pack \in UnregisteredPacks : createEntityRaises(pack)) =>
           /\ UNCHANGED <<m_NewEntities, m_InitializingEntities, m_Entities,
                          m_TeardownEntities, m_EntityCount>>
           /\ \A s \in SystemNames :
                 /\ occupiedSlots(systems'[s]) = occupiedSlots(systems[s])
                 /\ size(systems'[s]) = size(systems[s])]_vars

entitiesInQueues ==
    Len(m_NewEntities) + Len(m_InitializingEntities) + Len(m_Entities)
        + Len(m_TeardownEntities)

EntityCountIsTheNumberQueued ==
    /\ entityCount = entitiesInQueues
    /\ entityCount >= 0
    /\ pc = "clearTeardownEntities" => Len(m_TeardownEntities) <= m_EntityCount

\* one entity has been destructed and taken out of the count, another is
\* in teardown and still counted
CountedInTeardownAfterADestruction ==
    /\ pc = "idle"
    /\ \E ptr \in DOMAIN heap : heap[ptr].destructed = 1
    /\ Len(m_TeardownEntities) = 1
    /\ entityCount = 1

\* EntityLessByUid holds between neighbours all along the range
sortedByUid(container) ==
    \A i \in 1..(Len(container) - 1) :
        uidOf(container[i]) < uidOf(container[i + 1])

\* every uid of the first range is less than every uid of the second
allBelow(lower, upper) ==
    \A i \in DOMAIN lower : \A j \in DOMAIN upper :
        uidOf(lower[i]) < uidOf(upper[j])

\* -------------------------------------------------------------------------
\* C35: each of the four entity queues is sorted strictly increasing by
\* uid; every uid of the running queue is less than every uid of the
\* initializing queue, which is less than every uid of the new queue; the
\* ranges findEntityItr searches and set_intersection merges are sorted.
\* -------------------------------------------------------------------------
QueuesSortedByUid ==
    /\ sortedByUid(m_NewEntities)
    /\ sortedByUid(m_InitializingEntities)
    /\ sortedByUid(m_Entities)
    /\ sortedByUid(m_TeardownEntities)
    /\ allBelow(m_Entities, m_InitializingEntities)
    /\ allBelow(m_InitializingEntities, m_NewEntities)
    /\ allBelow(m_Entities, m_NewEntities)

\* the teardown queue was built from two entities, the requests for them
\* made in the reverse order of their uids
TeardownOfTwoSorted ==
    /\ pc = "idle"
    /\ Len(m_TeardownEntities) = 2
    /\ uidOf(m_TeardownEntities[1]) = 1
    /\ uidOf(m_TeardownEntities[2]) = 2

\* every entity of the range has the state
allInState(container, state) ==
    \A i \in DOMAIN container : heap[container[i]].m_State = state

\* -------------------------------------------------------------------------
\* C36: between World operations, an entity's state matches the queue that
\* holds it: none in the new queue, initializing in the initializing
\* queue, running in the running queue, teardown in the teardown queue.
\* -------------------------------------------------------------------------
StateMatchesQueue ==
    pc = "idle" =>
        /\ allInState(m_NewEntities, none)
        /\ allInState(m_InitializingEntities, initializing)
        /\ allInState(m_Entities, running)
        /\ allInState(m_TeardownEntities, teardown)

\* a postUpdate has completed with one entity in the teardown queue and
\* another in the initializing queue
TeardownBesideInitializing ==
    /\ pc = "idle"
    /\ Len(m_TeardownEntities) = 1
    /\ Len(m_InitializingEntities) = 1
    /\ heap[m_TeardownEntities[1]].m_State = teardown

\* the entities of the four queues
queuedEntities ==
    Range(m_NewEntities) \cup Range(m_InitializingEntities)
        \cup Range(m_Entities) \cup Range(m_TeardownEntities)

\* the entities of the four queues created with component type T
queuedEntitiesWith(T) ==
    {ptr \in queuedEntities : Entity_hasComponent(heap[ptr], T)}

\* SystemBase::empty
empty(system) == system.m_ComponentCount = 0

\* -------------------------------------------------------------------------
\* C37: after any sequence of World operations, for every registered system
\* size() equals the number of occupied slots of its table, which equals
\* the number of entities in the four queues created with the system's
\* component type; a system is empty() exactly when no live entity owns one
\* of its components.
\* -------------------------------------------------------------------------
SizeIsTheNumberOfOwners ==
    pc = "idle" =>
        \A s \in SystemNames :
            /\ size(systems[s]) = Cardinality(occupiedSlots(systems[s]))
            /\ size(systems[s]) = Cardinality(queuedEntitiesWith(s))
            /\ empty(systems[s]) <=> queuedEntitiesWith(s) = {}

\* the (system, slot) references an entity holds
slotsOf(ptr) ==
    {<<heap[ptr].m_ComponentInfos[k].systemPtr,
       heap[ptr].m_ComponentInfos[k].componentUid>> :
        k \in DOMAIN heap[ptr].m_ComponentInfos}

\* -------------------------------------------------------------------------
\* C38: each (system, slot) reference held by an entity of the four queues,
\* teardown included, denotes an occupied slot whose back-reference is that
\* entity; no two such entities reference the same slot of the same
\* system; a slot is handed out again only after the entity that owned it
\* has been destructed.
\* -------------------------------------------------------------------------
SlotsBelongToTheirEntities ==
    /\ \A ptr \in queuedEntities : \A ref \in slotsOf(ptr) :
          /\ ref[1] \in SystemNames
          /\ ref[2] \in occupiedSlots(systems[ref[1]])
          /\ systems[ref[1]].m_Components[ref[2]].entity = ptr
    /\ \A p, q \in queuedEntities :
          p # q => slotsOf(p) \cap slotsOf(q) = {}
    /\ \A p, q \in DOMAIN heap :
          p < q /\ slotsOf(p) \cap slotsOf(q) # {} => heap[p].destructed = 1

\* the slot of a destructed entity has been handed out again and is bound
\* to its new owner, which is running
SlotReissuedToRunningEntity ==
    /\ Len(heap) = 2
    /\ heap[1].destructed = 1
    /\ m_Entities = <<2>>
    /\ slotsOf(1) \cap slotsOf(2) # {}
    /\ \A ref \in slotsOf(2) :
          systems[ref[1]].m_Components[ref[2]].entity = 2

\* the slots of a table, occupied or free
capacity(system) == Len(system.m_Components)

\* -------------------------------------------------------------------------
\* C39: after any sequence of create and destroy calls on one system, the
\* capacity of its table, the highest slot id ever handed out, is the
\* largest number of components the table has held at the same time; a
\* slot is appended only when every slot the table has is occupied.
\* -------------------------------------------------------------------------
CapacityIsTheMostActiveAtOnce ==
    /\ capacity(theTable) = mostActive
    /\ capacity(theTable) > capacity(called.before) =>
          /\ called.op = "createComponent"
          /\ called.result = capacity(theTable)
          /\ occupiedSlots(called.before) = 1..capacity(called.before)

\* two components were held at once, the first was destroyed and created
\* again in its slot: the table still has two slots
FreedSlotFilledAtCapacityTwo ==
    /\ called.op = "createComponent"
    /\ called.result = 1
    /\ occupiedSlots(called.before) = {2}
    /\ capacity(theTable) = 2
    /\ mostActive = 2

====
